---- MODULE Spec2Model ----
(***************************************************************************)
(* Granite measurement server: measurement sheets, slab entries, the       *)
(* total-maintaining trigger, the sheet-number sequence and the Redis      *)
(* cache helper, modelled as concurrent request handlers over one          *)
(* PostgreSQL database (READ COMMITTED, every statement atomic, an         *)
(* uncommitted write invisible to other sessions and guarded by the row    *)
(* lock of the row it wrote).                                              *)
(***************************************************************************)
EXTENDS Integers, Sequences, FiniteSets, TLC

VARIABLES
    measurement_sheets,     \* committed rows of table measurement_sheets
    measurement_sheet_seq,  \* next value of sequence measurement_sheet_seq
    slab_entries,           \* committed rows of table slab_entries
    uuid,                   \* number of slab_entries ids generated so far
    sheetUuid,              \* number of measurement_sheets ids generated so far
    rowLock,                \* sheet id -> session holding its row lock (0: free)
    cache,                  \* Redis content: key -> value
    redisHost,              \* process.env.REDIS_HOST is set
    redisFaulty,            \* calls of the Redis client may raise
    pc,                     \* handler position of every request slot
    req,                    \* the request a slot is serving
    loc,                    \* the handler's local variables
    res,                    \* the last response a slot sent
    reqLeft,                \* requests the clients have yet to send
    lockingClause,          \* what the server does with FOR UPDATE on an aggregate
    entryLock,              \* sheet id -> session holding FOR UPDATE locks on its entries
    drawn,                  \* values nextval() has returned, in order
    clientEntries,          \* the slab entry bodies the clients send
    calc                    \* the call of a library function and its outcome

vars == <<measurement_sheets, measurement_sheet_seq, slab_entries, uuid,
          sheetUuid, rowLock, cache, redisHost, redisFaulty, pc, req, loc, res,
          reqLeft, lockingClause, entryLock, drawn, clientEntries, calc>>

dbVars == <<measurement_sheets, measurement_sheet_seq, slab_entries, uuid,
            sheetUuid, rowLock, lockingClause, entryLock, drawn>>

\* ---------------------------------------------------------------- bounds
NProcs == 2
MaxSheets == 2
MaxReq == 2
MaxPreload == 2
MaxBatch == 2
MaxBatchReq == 3

Procs == 1..NProcs
SheetIds == 1..MaxSheets

\* ------------------------------------------------------ program constants
validCustomerTypes ==
    {"Retail", "Granite Shops", "Builders", "Outstation Parties", "Exporters"}
validStatuses == {"draft", "completed"}
PadWidth == 4
SeqStart == 1
MaxDimension == 10000

\* ------------------------------------------------------------ input sets
Null == "NULL"
Customers == {1}
CustomerInputs == {1, 2}
TypeInputs == {"Retail", "Wholesale"}
StatusInputs == {"draft", "completed", "archived", Null}
\* request bodies of a slab entry: raw length, raw breadth, square feet
\* (hundredths of a square foot, as DECIMAL(10,2) stores it)
EntryInputs ==
    { [length |-> 5, breadth |-> 4, squareFeet |-> 2],
      [length |-> 5, breadth |-> 4, squareFeet |-> 3],
      [length |-> 0, breadth |-> 4, squareFeet |-> 2] }
\* the slabEntries arrays of POST /batch
BatchInputs ==
    UNION { [1..n -> clientEntries] : n \in 0..MaxBatch }

\* ------------------------------------------------------------- sequences
RECURSIVE ToText(_)
ToText(n) == IF n < 10 THEN <<n>> ELSE Append(ToText(n \div 10), n % 10)

LPAD(s, len, fill) ==
    IF Len(s) >= len THEN SubSeq(s, 1, len)
    ELSE [i \in 1..len |-> IF i <= len - Len(s) THEN fill
                           ELSE s[i - (len - Len(s))]]

\* DEFAULT of measurement_sheet_number: the digits that follow 'MS-'
measurement_sheet_number(n) == LPAD(ToText(n), PadWidth, 0)

RECURSIVE SumArea(_)
SumArea(rows) ==
    IF rows = {} THEN 0
    ELSE LET r == CHOOSE x \in rows : TRUE
         IN r.square_feet + SumArea(rows \ {r})

Max(S) == CHOOSE x \in S : \A y \in S : y <= x
Range(f) == { f[i] : i \in DOMAIN f }

\* ------------------------------------------------------------ the tables
SheetExists(rows, id) == \E r \in rows : r.id = id
SheetRow(rows, id) == CHOOSE r \in rows : r.id = id
EntriesOf(rows, s) == { r \in rows : r.measurement_sheet_id = s }
Serials(rows, s) == { r.serial_number : r \in EntriesOf(rows, s) }

\* SELECT COALESCE(MAX(serial_number), 0) FROM slab_entries WHERE sheet = s
MaxSerial(rows, s) ==
    IF EntriesOf(rows, s) = {} THEN 0 ELSE Max(Serials(rows, s))

\* a trigger function without COALESCE that skips a sheet left without rows
update_measurement_sheet_total_nonempty(sheets, rows, s) ==
    { IF r.id = s /\ EntriesOf(rows, s) # {}
        THEN [r EXCEPT !.total_square_feet = SumArea(EntriesOf(rows, s))]
        ELSE r : r \in sheets }

\* a trigger function that also resets the sheet's customer type to the
\* type of the first sheet
update_measurement_sheet_total_retyped(sheets, rows, s) ==
    { IF r.id = s
        THEN [r EXCEPT !.total_square_feet = SumArea(EntriesOf(rows, s)),
                       !.customer_type = "Retail"]
        ELSE r : r \in sheets }

\* a trigger function whose UPDATE has lost its WHERE clause
update_measurement_sheet_total_everysheet(sheets, rows, s) ==
    { [r EXCEPT !.total_square_feet = SumArea(EntriesOf(rows, s))] :
        r \in sheets }

\* trigger function: total_square_feet := SUM(square_feet) of the sheet
update_measurement_sheet_total(sheets, rows, s) ==
    { IF r.id = s
        THEN [r EXCEPT !.total_square_feet = SumArea(EntriesOf(rows, s))]
        ELSE r : r \in sheets }

\* column constraints of slab_entries (NOT NULL, CHECK (length > 0), ...)
SlabRowChecks(e) == e.length > 0 /\ e.breadth > 0

\* UNIQUE(measurement_sheet_id, serial_number)
SerialTaken(rows, s, n) == n \in Serials(rows, s)

NewSlabRow(id, s, n, e) ==
    [ id |-> id, measurement_sheet_id |-> s, serial_number |-> n,
      length |-> e.length, breadth |-> e.breadth,
      square_feet |-> e.squareFeet ]


\* ---------------------------------------------------------------- cache
\* Keys: measurement_sheet:<id>, measurement_sheet_full:<id>,
\* measurement_sheets:<query>, measurement_sheet_stats:overview,
\* slab_entries:sheet:<id>:all.  id 0 stands for the one listing / overview
\* key of a family and, in a pattern, for '*'.
Key(fam, id) == [fam |-> fam, id |-> id]
CacheKeys ==
    { Key(f, s) : f \in {"measurement_sheet", "measurement_sheet_full",
                         "slab_entries"}, s \in SheetIds }
    \cup { Key("measurement_sheets", 0), Key("measurement_sheet_stats", 0) }
KeyMatches(pat, k) == k.fam = pat.fam /\ (pat.id = 0 \/ k.id = pat.id)

null == [shape |-> "null"]

\* whether a call of the Redis client raises: never while the server is
\* healthy, possibly at any call otherwise
RedisOutcomes == IF redisFaulty THEN BOOLEAN ELSE {FALSE}

\* Each helper takes the cache content c, whether REDIS_HOST is set, and
\* whether the Redis client call raises; it yields the new content, the
\* value returned to the caller and whether an error escapes the helper.
cache_get(c, host, fails, key) ==
    [ cache |-> c,
      ret |-> IF host /\ ~fails THEN c[key] ELSE null,
      raised |-> FALSE ]

cache_set(c, host, fails, key, value) ==
    [ cache |-> IF host /\ ~fails THEN [c EXCEPT ![key] = value] ELSE c,
      ret |-> host /\ ~fails,
      raised |-> FALSE ]

\* del without its try/catch: an error of the Redis call escapes
cache_del_uncaught(c, host, fails, key) ==
    [ cache |-> IF host /\ ~fails THEN [c EXCEPT ![key] = null] ELSE c,
      ret |-> host /\ ~fails,
      raised |-> host /\ fails ]

cache_del(c, host, fails, key) ==
    [ cache |-> IF host /\ ~fails THEN [c EXCEPT ![key] = null] ELSE c,
      ret |-> host /\ ~fails,
      raised |-> FALSE ]

\* clearPattern without its keys.length guard and its try/catch: DEL with
\* an empty key list is an error of the Redis call, and it escapes
cache_clearPattern_unguarded(c, host, fails, pat) ==
    LET none == \A k \in DOMAIN c : KeyMatches(pat, k) => c[k] = null
    IN [ cache |-> IF host /\ ~fails
                     THEN [k \in DOMAIN c |->
                             IF KeyMatches(pat, k) THEN null ELSE c[k]]
                     ELSE c,
         ret |-> host /\ ~fails /\ ~none,
         raised |-> host /\ (fails \/ none) ]

cache_clearPattern(c, host, fails, pat) ==
    [ cache |-> IF host /\ ~fails
                  THEN [k \in DOMAIN c |->
                          IF KeyMatches(pat, k) THEN null ELSE c[k]]
                  ELSE c,
      ret |-> host /\ ~fails,
      raised |-> FALSE ]

\* --------------------------------------------------------- request slots
NoReq == [op |-> "none"]
NoRow == [id |-> 0]
NoLoc == [serialNumber |-> 0, i |-> 0, createdEntries |-> <<>>,
          sheet |-> NoRow, total |-> 0]
NoRes == [op |-> "none", sheet |-> 0, code |-> 0, data |-> <<>>]

Accept(p, r, next) ==
    /\ pc[p] = "idle"
    /\ reqLeft > 0
    /\ reqLeft' = reqLeft - 1
    /\ req' = [req EXCEPT ![p] = r]
    /\ pc' = [pc EXCEPT ![p] = next]
    /\ loc' = [loc EXCEPT ![p] = NoLoc]
    /\ res' = [res EXCEPT ![p] = NoRes]

\* a request turned away before it touches the database or the cache
Reject(p, r, code) ==
    /\ pc[p] = "idle"
    /\ reqLeft > 0
    /\ reqLeft' = reqLeft - 1
    /\ res' = [res EXCEPT ![p] =
                 [op |-> r.op, sheet |-> r.sheet, code |-> code, data |-> <<>>]]
    /\ UNCHANGED <<pc, req, loc>>

Respond(p, code, data) ==
    /\ pc' = [pc EXCEPT ![p] = "idle"]
    /\ res' = [res EXCEPT ![p] =
                 [op |-> req[p].op, sheet |-> req[p].sheet, code |-> code,
                  data |-> data]]
    /\ req' = [req EXCEPT ![p] = NoReq]
    /\ loc' = [loc EXCEPT ![p] = NoLoc]
    /\ UNCHANGED reqLeft

Goto(p, next) ==
    /\ pc' = [pc EXCEPT ![p] = next]
    /\ UNCHANGED <<req, res, reqLeft>>

\* a statement that writes a row of sheet s waits while another session
\* holds that sheet's row lock
LockFree(p, s) == rowLock[s] \in {0, p}
EntriesFree(p, s) == entryLock[s] \in {0, p}

\* COMMIT / ROLLBACK release every row lock of the session
Release(locks, p) == [s \in DOMAIN locks |-> IF locks[s] = p THEN 0 ELSE locks[s]]

\* ------------------------------------------ POST /api/measurement-sheets
sheetsInFlight ==
    Cardinality({ q \in Procs : pc[q] \in {"cms_insert", "msc_insert"} })

validateMeasurementSheetData(customerType) ==
    customerType \in validCustomerTypes

\* nextval('measurement_sheet_seq'): never rolled back
nextval(seqv) == seqv + 1

createMeasurementSheet_start(p) ==
    \E c \in CustomerInputs, t \in TypeInputs :
      LET r == [op |-> "createMeasurementSheet", sheet |-> 0,
                customerId |-> c, customerType |-> t]
      IN /\ sheetUuid + sheetsInFlight < MaxSheets
         /\ IF ~validateMeasurementSheetData(t) THEN Reject(p, r, 400)
            ELSE IF c \notin Customers THEN Reject(p, r, 404)
            ELSE Accept(p, r, "cms_insert")
         /\ UNCHANGED <<dbVars, cache, redisHost, redisFaulty, clientEntries, calc>>

createMeasurementSheet_insert(p) ==
    /\ pc[p] = "cms_insert"
    /\ LET n == measurement_sheet_seq
           row == [id |-> sheetUuid + 1,
                   measurement_sheet_number |-> measurement_sheet_number(n),
                   customer_type |-> req[p].customerType,
                   total_square_feet |-> 0, status |-> "draft"]
       IN /\ measurement_sheet_seq' = nextval(measurement_sheet_seq)
          /\ drawn' = Append(drawn, n)
          /\ sheetUuid' = sheetUuid + 1
          /\ IF \E r \in measurement_sheets :
                  r.measurement_sheet_number = row.measurement_sheet_number
               THEN /\ UNCHANGED measurement_sheets
                    /\ Respond(p, 500, <<>>)
               ELSE /\ measurement_sheets' = measurement_sheets \cup {row}
                    /\ loc' = [loc EXCEPT ![p].sheet = row]
                    /\ Goto(p, "cms_cache")
    /\ UNCHANGED <<slab_entries, uuid, rowLock, lockingClause, entryLock,
                   cache, redisHost, redisFaulty, clientEntries, calc>>

createMeasurementSheet_cache(p) ==
    /\ pc[p] = "cms_cache"
    /\ \E f1, f2 \in RedisOutcomes :
         LET row == loc[p].sheet
             c1 == cache_set(cache, redisHost, f1,
                             Key("measurement_sheet", row.id),
                             [shape |-> "row", sheet |-> row])
             c2 == cache_clearPattern(c1.cache, redisHost, f2,
                                      Key("measurement_sheets", 0))
         IN IF c1.raised
              THEN cache' = c1.cache /\ Respond(p, 500, <<>>)
            ELSE IF c2.raised
              THEN cache' = c2.cache /\ Respond(p, 500, <<>>)
            ELSE cache' = c2.cache /\ Respond(p, 201, <<>>)
    /\ UNCHANGED <<dbVars, redisHost, redisFaulty, clientEntries, calc>>


\* ------------------------------------------------ POST /api/slab-entries
validateSlabEntryData(e) ==
    /\ e.length > 0 /\ e.length <= MaxDimension
    /\ e.breadth > 0 /\ e.breadth <= MaxDimension

\* what an INSERT of row values e with serial n into sheet s does, given
\* the rows the session sees: FK, UNIQUE and CHECK constraints
InsertAccepted(sheets, visible, s, n, e) ==
    /\ SheetExists(sheets, s)
    /\ ~SerialTaken(visible, s, n)
    /\ SlabRowChecks(e)

createSlabEntry_start(p) ==
    \E s \in SheetIds, e \in clientEntries :
      LET r == [op |-> "createSlabEntry", sheet |-> s, entry |-> e]
      IN /\ IF ~validateSlabEntryData(e) THEN Reject(p, r, 422)
            ELSE Accept(p, r, "cse_check")
         /\ UNCHANGED <<dbVars, cache, redisHost, redisFaulty, clientEntries, calc>>

\* the handler without its sheet lookup
createSlabEntry_check_absent(p) ==
    /\ pc[p] = "cse_check"
    /\ Goto(p, "cse_serial") /\ UNCHANGED loc
    /\ UNCHANGED <<dbVars, cache, redisHost, redisFaulty, clientEntries, calc>>

createSlabEntry_check(p) ==
    /\ pc[p] = "cse_check"
    /\ IF ~SheetExists(measurement_sheets, req[p].sheet)
         THEN Respond(p, 404, <<>>)
         ELSE Goto(p, "cse_serial") /\ UNCHANGED loc
    /\ UNCHANGED <<dbVars, cache, redisHost, redisFaulty, clientEntries, calc>>

createSlabEntry_serial(p) ==
    /\ pc[p] = "cse_serial"
    /\ loc' = [loc EXCEPT ![p].serialNumber =
                 MaxSerial(slab_entries, req[p].sheet) + 1]
    /\ Goto(p, "cse_insert")
    /\ UNCHANGED <<dbVars, cache, redisHost, redisFaulty, clientEntries, calc>>

createSlabEntry_insert(p) ==
    /\ pc[p] = "cse_insert"
    /\ LET s == req[p].sheet
           n == loc[p].serialNumber
           row == NewSlabRow(uuid + 1, s, n, req[p].entry)
       IN /\ LockFree(p, s)
          /\ IF InsertAccepted(measurement_sheets, slab_entries, s, n,
                               req[p].entry)
               THEN /\ slab_entries' = slab_entries \cup {row}
                    /\ measurement_sheets' =
                         update_measurement_sheet_total(
                             measurement_sheets, slab_entries', s)
                    /\ uuid' = uuid + 1
                    /\ loc' = [loc EXCEPT ![p].createdEntries = <<row>>]
                    /\ Goto(p, "cse_cache")
               ELSE /\ Respond(p, 500, <<>>)
                    /\ UNCHANGED <<slab_entries, measurement_sheets, uuid>>
    /\ UNCHANGED <<measurement_sheet_seq, sheetUuid, rowLock, lockingClause,
                   entryLock, drawn, cache, redisHost, redisFaulty, clientEntries, calc>>

\* cache.del(measurement_sheet_full:<id>); clearPattern(measurement_sheets:*)
controllerInvalidate(p, s, code, data) ==
    \E f1, f2 \in RedisOutcomes :
      LET c1 == cache_del(cache, redisHost, f1,
                          Key("measurement_sheet_full", s))
          c2 == cache_clearPattern(c1.cache, redisHost, f2,
                                   Key("measurement_sheets", 0))
      IN IF c1.raised THEN cache' = c1.cache /\ Respond(p, 500, <<>>)
         ELSE IF c2.raised THEN cache' = c2.cache /\ Respond(p, 500, <<>>)
         ELSE cache' = c2.cache /\ Respond(p, code, data)

createSlabEntry_cache(p) ==
    /\ pc[p] = "cse_cache"
    /\ controllerInvalidate(p, req[p].sheet, 201, <<>>)
    /\ UNCHANGED <<dbVars, redisHost, redisFaulty, clientEntries, calc>>

createSlabEntry(p) ==
    \/ createSlabEntry_start(p)
    \/ createSlabEntry_check(p)
    \/ createSlabEntry_serial(p)
    \/ createSlabEntry_insert(p)
    \/ createSlabEntry_cache(p)

createMeasurementSheet(p) ==
    \/ createMeasurementSheet_start(p)
    \/ createMeasurementSheet_insert(p)
    \/ createMeasurementSheet_cache(p)

\* --------------------------------------------- PUT /api/slab-entries/:id
EntryIds == { r.id : r \in slab_entries } \cup {0}
HasRow(rows, id) == \E r \in rows : r.id = id
RowById(rows, id) == CHOOSE r \in rows : r.id = id

\* controller check: if (length <= 0 || breadth <= 0) -> 400
updateSlabEntryValid(e) == ~(e.length <= 0 \/ e.breadth <= 0)

\* UPDATE slab_entries SET length = .., breadth = .., square_feet = ..
UpdatedRow(r, e) ==
    [r EXCEPT !.length = e.length, !.breadth = e.breadth,
              !.square_feet = e.squareFeet]

updateSlabEntry_start(p) ==
    \E id \in EntryIds, e \in clientEntries :
      LET r == [op |-> "updateSlabEntry", sheet |-> 0, id |-> id, entry |-> e]
      IN /\ IF ~updateSlabEntryValid(e) THEN Reject(p, r, 400)
            ELSE Accept(p, r, "use_update")
         /\ UNCHANGED <<dbVars, cache, redisHost, redisFaulty, clientEntries, calc>>

updateSlabEntry_update(p) ==
    /\ pc[p] = "use_update"
    /\ IF ~HasRow(slab_entries, req[p].id)
         THEN /\ Respond(p, 404, <<>>)
              /\ UNCHANGED <<slab_entries, measurement_sheets>>
         ELSE LET old == RowById(slab_entries, req[p].id)
                  s == old.measurement_sheet_id
                  new == UpdatedRow(old, req[p].entry)
              IN /\ LockFree(p, s) /\ EntriesFree(p, s)
                 /\ IF SlabRowChecks(req[p].entry)
                      THEN /\ slab_entries' = (slab_entries \ {old}) \cup {new}
                           /\ measurement_sheets' =
                                update_measurement_sheet_total(
                                    measurement_sheets, slab_entries', s)
                           /\ loc' = [loc EXCEPT ![p].createdEntries = <<new>>]
                           /\ req' = [req EXCEPT ![p].sheet = s]
                           /\ pc' = [pc EXCEPT ![p] = "use_cache"]
                           /\ UNCHANGED <<res, reqLeft>>
                      ELSE /\ Respond(p, 500, <<>>)
                           /\ UNCHANGED <<slab_entries, measurement_sheets>>
    /\ UNCHANGED <<measurement_sheet_seq, uuid, sheetUuid, rowLock,
                   lockingClause, entryLock, drawn, cache, redisHost, redisFaulty, clientEntries, calc>>

updateSlabEntry_cache(p) ==
    /\ pc[p] = "use_cache"
    /\ controllerInvalidate(p, req[p].sheet, 200, <<>>)
    /\ UNCHANGED <<dbVars, redisHost, redisFaulty, clientEntries, calc>>

updateSlabEntry(p) ==
    \/ updateSlabEntry_start(p)
    \/ updateSlabEntry_update(p)
    \/ updateSlabEntry_cache(p)

\* ------------------------------------------ DELETE /api/slab-entries/:id
deleteSlabEntry_start(p) ==
    \E id \in EntryIds :
      /\ Accept(p, [op |-> "deleteSlabEntry", sheet |-> 0, id |-> id],
                "dse_delete")
      /\ UNCHANGED <<dbVars, cache, redisHost, redisFaulty, clientEntries, calc>>

deleteSlabEntry_delete(p) ==
    /\ pc[p] = "dse_delete"
    /\ IF ~HasRow(slab_entries, req[p].id)
         THEN /\ Respond(p, 404, <<>>)
              /\ UNCHANGED <<slab_entries, measurement_sheets>>
         ELSE LET old == RowById(slab_entries, req[p].id)
                  s == old.measurement_sheet_id
              IN /\ LockFree(p, s) /\ EntriesFree(p, s)
                 /\ slab_entries' = slab_entries \ {old}
                 /\ measurement_sheets' =
                      update_measurement_sheet_total(
                          measurement_sheets, slab_entries', s)
                 /\ req' = [req EXCEPT ![p].sheet = s]
                 /\ pc' = [pc EXCEPT ![p] = "dse_cache"]
                 /\ UNCHANGED <<loc, res, reqLeft>>
    /\ UNCHANGED <<measurement_sheet_seq, uuid, sheetUuid, rowLock,
                   lockingClause, entryLock, drawn, cache, redisHost, redisFaulty, clientEntries, calc>>

deleteSlabEntry_cache(p) ==
    /\ pc[p] = "dse_cache"
    /\ controllerInvalidate(p, req[p].sheet, 200, <<>>)
    /\ UNCHANGED <<dbVars, redisHost, redisFaulty, clientEntries, calc>>

deleteSlabEntry(p) ==
    \/ deleteSlabEntry_start(p)
    \/ deleteSlabEntry_delete(p)
    \/ deleteSlabEntry_cache(p)

\* ------------------------------------------ POST /api/slab-entries/batch
\* rows the session sees: the committed ones and its own uncommitted ones
Visible(p) == slab_entries \cup Range(loc[p].createdEntries)

batchCreateSlabEntries_start(p) ==
    \E s \in SheetIds, b \in BatchInputs :
      LET r == [op |-> "batchCreateSlabEntries", sheet |-> s, slabEntries |-> b]
      IN /\ IF Len(b) = 0 THEN Reject(p, r, 400)
            ELSE Accept(p, r, "bce_check")
         /\ UNCHANGED <<dbVars, cache, redisHost, redisFaulty, clientEntries, calc>>

batchCreateSlabEntries_check(p) ==
    /\ pc[p] = "bce_check"
    /\ IF ~SheetExists(measurement_sheets, req[p].sheet)
         THEN Respond(p, 404, <<>>)
         ELSE /\ loc' = [loc EXCEPT ![p].i = 1]
              /\ Goto(p, "bce_serial")
    /\ UNCHANGED <<dbVars, cache, redisHost, redisFaulty, clientEntries, calc>>

batchCreateSlabEntries_serial(p) ==
    /\ pc[p] = "bce_serial"
    /\ loc' = [loc EXCEPT ![p].serialNumber =
                 MaxSerial(Visible(p), req[p].sheet) + 1]
    /\ Goto(p, "bce_insert")
    /\ UNCHANGED <<dbVars, cache, redisHost, redisFaulty, clientEntries, calc>>

batchCreateSlabEntries_insert(p) ==
    /\ pc[p] = "bce_insert"
    /\ LET s == req[p].sheet
           i == loc[p].i
           e == req[p].slabEntries[i]
           n == loc[p].serialNumber
           row == NewSlabRow(uuid + 1, s, n, e)
       IN /\ LockFree(p, s)
          /\ IF InsertAccepted(measurement_sheets, Visible(p), s, n, e)
               THEN /\ uuid' = uuid + 1
                    /\ rowLock' = [rowLock EXCEPT ![s] = p]
                    /\ loc' = [loc EXCEPT
                         ![p].createdEntries = Append(@, row),
                         ![p].i = i + 1,
                         ![p].total =
                            SheetRow(update_measurement_sheet_total(
                                measurement_sheets,
                                Visible(p) \cup {row}, s), s).total_square_feet]
                    /\ Goto(p, IF i < Len(req[p].slabEntries)
                                 THEN "bce_serial" ELSE "bce_commit")
               ELSE \* catch: ROLLBACK
                    /\ rowLock' = Release(rowLock, p)
                    /\ Respond(p, 500, <<>>)
                    /\ UNCHANGED uuid
    /\ UNCHANGED <<measurement_sheets, measurement_sheet_seq, slab_entries,
                   sheetUuid, lockingClause, entryLock, drawn, cache,
                   redisHost, redisFaulty, clientEntries, calc>>

\* COMMIT publishes the session's rows and the total its trigger computed
CommitRows(p, s) ==
    /\ slab_entries' = slab_entries \cup Range(loc[p].createdEntries)
    /\ measurement_sheets' =
         { IF r.id = s THEN [r EXCEPT !.total_square_feet = loc[p].total]
           ELSE r : r \in measurement_sheets }
    /\ rowLock' = Release(rowLock, p)
    /\ entryLock' = Release(entryLock, p)

RollbackRows(p) ==
    /\ rowLock' = Release(rowLock, p)
    /\ entryLock' = Release(entryLock, p)
    /\ UNCHANGED <<slab_entries, measurement_sheets>>

batchCreateSlabEntries_commit(p) ==
    /\ pc[p] = "bce_commit"
    /\ \/ /\ CommitRows(p, req[p].sheet)
          /\ Goto(p, "bce_cache")
          /\ UNCHANGED loc
       \/ \* COMMIT fails (connection lost): catch, ROLLBACK
          /\ RollbackRows(p)
          /\ Respond(p, 500, <<>>)
    /\ UNCHANGED <<measurement_sheet_seq, uuid, sheetUuid, lockingClause,
                   drawn, cache, redisHost, redisFaulty, clientEntries, calc>>

batchCreateSlabEntries_cache(p) ==
    /\ pc[p] = "bce_cache"
    /\ controllerInvalidate(p, req[p].sheet, 201, <<>>)
    /\ UNCHANGED <<dbVars, redisHost, redisFaulty, clientEntries, calc>>

batchCreateSlabEntries(p) ==
    \/ batchCreateSlabEntries_start(p)
    \/ batchCreateSlabEntries_check(p)
    \/ batchCreateSlabEntries_serial(p)
    \/ batchCreateSlabEntries_insert(p)
    \/ batchCreateSlabEntries_commit(p)
    \/ batchCreateSlabEntries_cache(p)

\* ------------------------------------------------------ SlabEntry model
\* cache.del(measurement_sheet_full:<id>); clearPattern(measurement_sheets:*);
\* clearPattern(slabPat)
modelInvalidate(p, s, slabPat, code) ==
    \E f1, f2, f3 \in RedisOutcomes :
      LET c1 == cache_del(cache, redisHost, f1,
                          Key("measurement_sheet_full", s))
          c2 == cache_clearPattern(c1.cache, redisHost, f2,
                                   Key("measurement_sheets", 0))
          c3 == cache_clearPattern(c2.cache, redisHost, f3, slabPat)
      IN IF c1.raised THEN cache' = c1.cache /\ Respond(p, 500, <<>>)
         ELSE IF c2.raised THEN cache' = c2.cache /\ Respond(p, 500, <<>>)
         ELSE IF c3.raised THEN cache' = c3.cache /\ Respond(p, 500, <<>>)
         ELSE cache' = c3.cache /\ Respond(p, code, <<>>)

\* SELECT COALESCE(MAX(serial_number), 0) ... FOR UPDATE: the server either
\* refuses a locking clause on an aggregate, or locks the sheet's entries
SerialForUpdate(p, s, plus, next) ==
    IF lockingClause = "rejected"
      THEN /\ rowLock' = Release(rowLock, p)
           /\ entryLock' = Release(entryLock, p)
           /\ Respond(p, 500, <<>>)
      ELSE /\ EntriesFree(p, s)
           /\ entryLock' = IF EntriesOf(slab_entries, s) = {} THEN entryLock
                           ELSE [entryLock EXCEPT ![s] = p]
           /\ loc' = [loc EXCEPT ![p].serialNumber =
                        MaxSerial(Visible(p), s) + plus]
           /\ Goto(p, next)
           /\ UNCHANGED rowLock

SlabEntry_create_start(p) ==
    \E s \in SheetIds, e \in clientEntries :
      /\ Accept(p, [op |-> "SlabEntry.create", sheet |-> s, entry |-> e],
                "sec_check")
      /\ UNCHANGED <<dbVars, cache, redisHost, redisFaulty, clientEntries, calc>>

SlabEntry_create_check(p) ==
    /\ pc[p] = "sec_check"
    /\ IF ~SheetExists(measurement_sheets, req[p].sheet)
         THEN Respond(p, 404, <<>>)
         ELSE Goto(p, "sec_serial") /\ UNCHANGED loc
    /\ UNCHANGED <<dbVars, cache, redisHost, redisFaulty, clientEntries, calc>>

SlabEntry_create_serial(p) ==
    /\ pc[p] = "sec_serial"
    /\ SerialForUpdate(p, req[p].sheet, 1, "sec_insert")
    /\ UNCHANGED <<measurement_sheets, measurement_sheet_seq, slab_entries,
                   uuid, sheetUuid, lockingClause, drawn, cache, redisHost, redisFaulty, clientEntries, calc>>

SlabEntry_create_insert(p) ==
    /\ pc[p] = "sec_insert"
    /\ LET s == req[p].sheet
           n == loc[p].serialNumber
           row == NewSlabRow(uuid + 1, s, n, req[p].entry)
       IN /\ LockFree(p, s)
          /\ IF InsertAccepted(measurement_sheets, Visible(p), s, n,
                               req[p].entry)
               THEN /\ uuid' = uuid + 1
                    /\ rowLock' = [rowLock EXCEPT ![s] = p]
                    /\ loc' = [loc EXCEPT
                         ![p].createdEntries = <<row>>,
                         ![p].total =
                            SheetRow(update_measurement_sheet_total(
                                measurement_sheets,
                                Visible(p) \cup {row}, s), s).total_square_feet]
                    /\ Goto(p, "sec_commit")
                    /\ UNCHANGED entryLock
               ELSE /\ rowLock' = Release(rowLock, p)
                    /\ entryLock' = Release(entryLock, p)
                    /\ Respond(p, 500, <<>>)
                    /\ UNCHANGED uuid
    /\ UNCHANGED <<measurement_sheets, measurement_sheet_seq, slab_entries,
                   sheetUuid, lockingClause, drawn, cache, redisHost, redisFaulty, clientEntries, calc>>

SlabEntry_create_commit(p) ==
    /\ pc[p] = "sec_commit"
    /\ \/ /\ CommitRows(p, req[p].sheet)
          /\ Goto(p, "sec_cache")
          /\ UNCHANGED loc
       \/ /\ RollbackRows(p)
          /\ Respond(p, 500, <<>>)
    /\ UNCHANGED <<measurement_sheet_seq, uuid, sheetUuid, lockingClause,
                   drawn, cache, redisHost, redisFaulty, clientEntries, calc>>

SlabEntry_create_cache(p) ==
    /\ pc[p] = "sec_cache"
    /\ modelInvalidate(p, req[p].sheet, Key("slab_entries", 0), 201)
    /\ UNCHANGED <<dbVars, redisHost, redisFaulty, clientEntries, calc>>

SlabEntry_create(p) ==
    \/ SlabEntry_create_start(p)
    \/ SlabEntry_create_check(p)
    \/ SlabEntry_create_serial(p)
    \/ SlabEntry_create_insert(p)
    \/ SlabEntry_create_commit(p)
    \/ SlabEntry_create_cache(p)

\* rows of one multi-row INSERT: serials currentSerial+1.. in input order
BatchRows(s, currentSerial, firstId, b) ==
    [i \in 1..Len(b) |-> NewSlabRow(firstId + i, s, currentSerial + i, b[i])]

SlabEntry_batchCreate_start(p) ==
    \E s \in SheetIds, b \in BatchInputs :
      /\ Accept(p, [op |-> "SlabEntry.batchCreate", sheet |-> s,
                    slabEntries |-> b], "sbc_check")
      /\ UNCHANGED <<dbVars, cache, redisHost, redisFaulty, clientEntries, calc>>

SlabEntry_batchCreate_check(p) ==
    /\ pc[p] = "sbc_check"
    /\ IF ~SheetExists(measurement_sheets, req[p].sheet)
         THEN Respond(p, 404, <<>>)
         ELSE Goto(p, "sbc_serial") /\ UNCHANGED loc
    /\ UNCHANGED <<dbVars, cache, redisHost, redisFaulty, clientEntries, calc>>

SlabEntry_batchCreate_serial(p) ==
    /\ pc[p] = "sbc_serial"
    /\ SerialForUpdate(p, req[p].sheet, 0, "sbc_insert")
    /\ UNCHANGED <<measurement_sheets, measurement_sheet_seq, slab_entries,
                   uuid, sheetUuid, lockingClause, drawn, cache, redisHost, redisFaulty, clientEntries, calc>>

SlabEntry_batchCreate_insert(p) ==
    /\ pc[p] = "sbc_insert"
    /\ LET s == req[p].sheet
           b == req[p].slabEntries
           rows == BatchRows(s, loc[p].serialNumber, uuid, b)
       IN /\ LockFree(p, s)
          /\ IF /\ Len(b) > 0
                /\ \A i \in 1..Len(b) :
                     InsertAccepted(measurement_sheets, Visible(p), s,
                                    rows[i].serial_number, b[i])
               THEN /\ uuid' = uuid + Len(b)
                    /\ rowLock' = [rowLock EXCEPT ![s] = p]
                    /\ loc' = [loc EXCEPT
                         ![p].createdEntries = rows,
                         ![p].total =
                            SheetRow(update_measurement_sheet_total(
                                measurement_sheets,
                                Visible(p) \cup Range(rows), s),
                                s).total_square_feet]
                    /\ Goto(p, "sbc_commit")
                    /\ UNCHANGED entryLock
               ELSE /\ rowLock' = Release(rowLock, p)
                    /\ entryLock' = Release(entryLock, p)
                    /\ Respond(p, 500, <<>>)
                    /\ UNCHANGED uuid
    /\ UNCHANGED <<measurement_sheets, measurement_sheet_seq, slab_entries,
                   sheetUuid, lockingClause, drawn, cache, redisHost, redisFaulty, clientEntries, calc>>

SlabEntry_batchCreate_commit(p) ==
    /\ pc[p] = "sbc_commit"
    /\ \/ /\ CommitRows(p, req[p].sheet)
          /\ Goto(p, "sbc_cache")
          /\ UNCHANGED loc
       \/ /\ RollbackRows(p)
          /\ Respond(p, 500, <<>>)
    /\ UNCHANGED <<measurement_sheet_seq, uuid, sheetUuid, lockingClause,
                   drawn, cache, redisHost, redisFaulty, clientEntries, calc>>

SlabEntry_batchCreate_cache(p) ==
    /\ pc[p] = "sbc_cache"
    /\ modelInvalidate(p, req[p].sheet, Key("slab_entries", 0), 201)
    /\ UNCHANGED <<dbVars, redisHost, redisFaulty, clientEntries, calc>>

SlabEntry_batchCreate(p) ==
    \/ SlabEntry_batchCreate_start(p)
    \/ SlabEntry_batchCreate_check(p)
    \/ SlabEntry_batchCreate_serial(p)
    \/ SlabEntry_batchCreate_insert(p)
    \/ SlabEntry_batchCreate_commit(p)
    \/ SlabEntry_batchCreate_cache(p)

\* instance methods: `this` is a row read earlier by SlabEntry.findById
SlabEntry_update_start(p) ==
    \E r \in slab_entries, e \in clientEntries :
      /\ Accept(p, [op |-> "SlabEntry.update", sheet |-> r.measurement_sheet_id,
                    id |-> r.id, entry |-> e], "seu_update")
      /\ UNCHANGED <<dbVars, cache, redisHost, redisFaulty, clientEntries, calc>>

SlabEntry_update_update(p) ==
    /\ pc[p] = "seu_update"
    /\ IF ~HasRow(slab_entries, req[p].id)
         THEN /\ Respond(p, 404, <<>>)
              /\ UNCHANGED <<slab_entries, measurement_sheets>>
         ELSE LET old == RowById(slab_entries, req[p].id)
                  s == old.measurement_sheet_id
                  new == UpdatedRow(old, req[p].entry)
              IN /\ LockFree(p, s) /\ EntriesFree(p, s)
                 /\ IF SlabRowChecks(req[p].entry)
                      THEN /\ slab_entries' = (slab_entries \ {old}) \cup {new}
                           /\ measurement_sheets' =
                                update_measurement_sheet_total(
                                    measurement_sheets, slab_entries', s)
                           /\ Goto(p, "seu_cache")
                           /\ UNCHANGED loc
                      ELSE /\ Respond(p, 500, <<>>)
                           /\ UNCHANGED <<slab_entries, measurement_sheets>>
    /\ UNCHANGED <<measurement_sheet_seq, uuid, sheetUuid, rowLock,
                   lockingClause, entryLock, drawn, cache, redisHost, redisFaulty, clientEntries, calc>>

SlabEntry_update_cache(p) ==
    /\ pc[p] = "seu_cache"
    /\ modelInvalidate(p, req[p].sheet, Key("slab_entries", req[p].sheet), 200)
    /\ UNCHANGED <<dbVars, redisHost, redisFaulty, clientEntries, calc>>

SlabEntry_update(p) ==
    \/ SlabEntry_update_start(p)
    \/ SlabEntry_update_update(p)
    \/ SlabEntry_update_cache(p)

SlabEntry_delete_start(p) ==
    \E r \in slab_entries :
      /\ Accept(p, [op |-> "SlabEntry.delete", sheet |-> r.measurement_sheet_id,
                    id |-> r.id], "sed_delete")
      /\ UNCHANGED <<dbVars, cache, redisHost, redisFaulty, clientEntries, calc>>

SlabEntry_delete_delete(p) ==
    /\ pc[p] = "sed_delete"
    /\ IF ~HasRow(slab_entries, req[p].id)
         THEN /\ Respond(p, 404, <<>>)
              /\ UNCHANGED <<slab_entries, measurement_sheets>>
         ELSE LET old == RowById(slab_entries, req[p].id)
                  s == old.measurement_sheet_id
              IN /\ LockFree(p, s) /\ EntriesFree(p, s)
                 /\ slab_entries' = slab_entries \ {old}
                 /\ measurement_sheets' =
                      update_measurement_sheet_total(
                          measurement_sheets, slab_entries', s)
                 /\ Goto(p, "sed_cache")
                 /\ UNCHANGED loc
    /\ UNCHANGED <<measurement_sheet_seq, uuid, sheetUuid, rowLock,
                   lockingClause, entryLock, drawn, cache, redisHost, redisFaulty, clientEntries, calc>>

SlabEntry_delete_cache(p) ==
    /\ pc[p] = "sed_cache"
    /\ modelInvalidate(p, req[p].sheet, Key("slab_entries", req[p].sheet), 200)
    /\ UNCHANGED <<dbVars, redisHost, redisFaulty, clientEntries, calc>>

SlabEntry_delete(p) ==
    \/ SlabEntry_delete_start(p)
    \/ SlabEntry_delete_delete(p)
    \/ SlabEntry_delete_cache(p)

\* ------------------------------------- PUT /api/measurement-sheets/:id
\* column status: CHECK (status IN ('draft', 'completed')), nullable
StatusCheck(st) == st = Null \/ st \in validStatuses

updateMeasurementSheet_start(p) ==
    \E s \in SheetIds, st \in StatusInputs :
      /\ Accept(p, [op |-> "updateMeasurementSheet", sheet |-> s,
                    status |-> st], "ums_update")
      /\ UNCHANGED <<dbVars, cache, redisHost, redisFaulty, clientEntries, calc>>

\* UPDATE measurement_sheets SET status = $1 WHERE id = $2
updateMeasurementSheet_update(p) ==
    /\ pc[p] = "ums_update"
    /\ LET s == req[p].sheet
       IN IF ~SheetExists(measurement_sheets, s)
            THEN Respond(p, 404, <<>>) /\ UNCHANGED measurement_sheets
            ELSE /\ LockFree(p, s)
                 /\ IF StatusCheck(req[p].status)
                      THEN LET new == [SheetRow(measurement_sheets, s)
                                         EXCEPT !.status = req[p].status]
                           IN /\ measurement_sheets' =
                                   (measurement_sheets
                                      \ {SheetRow(measurement_sheets, s)})
                                   \cup {new}
                              /\ loc' = [loc EXCEPT ![p].sheet = new]
                              /\ Goto(p, "ums_cache")
                      ELSE Respond(p, 500, <<>>) /\ UNCHANGED measurement_sheets
    /\ UNCHANGED <<measurement_sheet_seq, slab_entries, uuid, sheetUuid,
                   rowLock, lockingClause, entryLock, drawn, cache, redisHost, redisFaulty, clientEntries, calc>>

\* cache.set(measurement_sheet:<id>, value); cache.del(measurement_sheet_full:
\* <id>); clearPattern(measurement_sheets:*)
sheetUpdateCaches(p, s, value, code) ==
    \E f1, f2, f3 \in RedisOutcomes :
      LET c1 == cache_set(cache, redisHost, f1,
                          Key("measurement_sheet", s), value)
          c2 == cache_del(c1.cache, redisHost, f2,
                          Key("measurement_sheet_full", s))
          c3 == cache_clearPattern(c2.cache, redisHost, f3,
                                   Key("measurement_sheets", 0))
      IN IF c1.raised THEN cache' = c1.cache /\ Respond(p, 500, <<>>)
         ELSE IF c2.raised THEN cache' = c2.cache /\ Respond(p, 500, <<>>)
         ELSE IF c3.raised THEN cache' = c3.cache /\ Respond(p, 500, <<>>)
         ELSE cache' = c3.cache /\ Respond(p, code, <<>>)

updateMeasurementSheet_cache(p) ==
    /\ pc[p] = "ums_cache"
    /\ sheetUpdateCaches(p, req[p].sheet,
                         [shape |-> "row", sheet |-> loc[p].sheet], 200)
    /\ UNCHANGED <<dbVars, redisHost, redisFaulty, clientEntries, calc>>

updateMeasurementSheet(p) ==
    \/ updateMeasurementSheet_start(p)
    \/ updateMeasurementSheet_update(p)
    \/ updateMeasurementSheet_cache(p)

\* ----------------------------------------------- MeasurementSheet.update
\* if (status && !['draft', 'completed'].includes(status)) throw
MeasurementSheet_update_valid(st) == st = Null \/ st \in validStatuses

\* COALESCE($1, status)
COALESCE(a, b) == IF a = Null THEN b ELSE a

MeasurementSheet_update_start(p) ==
    \E r \in measurement_sheets, st \in StatusInputs :
      LET q == [op |-> "MeasurementSheet.update", sheet |-> r.id, status |-> st]
      IN /\ IF ~MeasurementSheet_update_valid(st) THEN Reject(p, q, 500)
            ELSE Accept(p, q, "msu_update")
         /\ UNCHANGED <<dbVars, cache, redisHost, redisFaulty, clientEntries, calc>>

MeasurementSheet_update_update(p) ==
    /\ pc[p] = "msu_update"
    /\ LET s == req[p].sheet
       IN IF ~SheetExists(measurement_sheets, s)
            THEN Respond(p, 404, <<>>) /\ UNCHANGED measurement_sheets
            ELSE LET old == SheetRow(measurement_sheets, s)
                     new == [old EXCEPT
                               !.status = COALESCE(req[p].status, old.status)]
                 IN /\ LockFree(p, s)
                    /\ measurement_sheets' =
                         (measurement_sheets \ {old}) \cup {new}
                    /\ loc' = [loc EXCEPT ![p].sheet = new]
                    /\ Goto(p, "msu_cache")
    /\ UNCHANGED <<measurement_sheet_seq, slab_entries, uuid, sheetUuid,
                   rowLock, lockingClause, entryLock, drawn, cache, redisHost, redisFaulty, clientEntries, calc>>

MeasurementSheet_update_cache(p) ==
    /\ pc[p] = "msu_cache"
    /\ sheetUpdateCaches(p, req[p].sheet,
                         [shape |-> "instance", sheet |-> loc[p].sheet], 200)
    /\ UNCHANGED <<dbVars, redisHost, redisFaulty, clientEntries, calc>>

MeasurementSheet_update(p) ==
    \/ MeasurementSheet_update_start(p)
    \/ MeasurementSheet_update_update(p)
    \/ MeasurementSheet_update_cache(p)

\* ---------------------------------- DELETE /api/measurement-sheets/:id
deleteMeasurementSheet_start(p) ==
    \E s \in SheetIds :
      /\ Accept(p, [op |-> "deleteMeasurementSheet", sheet |-> s],
                "dms_delete")
      /\ UNCHANGED <<dbVars, cache, redisHost, redisFaulty, clientEntries, calc>>

\* DELETE FROM measurement_sheets; slab_entries go by ON DELETE CASCADE
deleteMeasurementSheet_delete(p) ==
    /\ pc[p] = "dms_delete"
    /\ LET s == req[p].sheet
       IN IF ~SheetExists(measurement_sheets, s)
            THEN /\ Respond(p, 404, <<>>)
                 /\ UNCHANGED <<measurement_sheets, slab_entries>>
            ELSE /\ LockFree(p, s) /\ EntriesFree(p, s)
                 /\ measurement_sheets' =
                      measurement_sheets \ {SheetRow(measurement_sheets, s)}
                 /\ slab_entries' = slab_entries \ EntriesOf(slab_entries, s)
                 /\ Goto(p, "dms_cache")
                 /\ UNCHANGED loc
    /\ UNCHANGED <<measurement_sheet_seq, uuid, sheetUuid, rowLock,
                   lockingClause, entryLock, drawn, cache, redisHost, redisFaulty, clientEntries, calc>>

deleteMeasurementSheet_cache(p) ==
    /\ pc[p] = "dms_cache"
    /\ \E f1, f2, f3 \in RedisOutcomes :
         LET s == req[p].sheet
             c1 == cache_del(cache, redisHost, f1, Key("measurement_sheet", s))
             c2 == cache_del(c1.cache, redisHost, f2,
                             Key("measurement_sheet_full", s))
             c3 == cache_clearPattern(c2.cache, redisHost, f3,
                                      Key("measurement_sheets", 0))
         IN IF c1.raised THEN cache' = c1.cache /\ Respond(p, 500, <<>>)
            ELSE IF c2.raised THEN cache' = c2.cache /\ Respond(p, 500, <<>>)
            ELSE IF c3.raised THEN cache' = c3.cache /\ Respond(p, 500, <<>>)
            ELSE cache' = c3.cache /\ Respond(p, 200, <<>>)
    /\ UNCHANGED <<dbVars, redisHost, redisFaulty, clientEntries, calc>>

deleteMeasurementSheet(p) ==
    \/ deleteMeasurementSheet_start(p)
    \/ deleteMeasurementSheet_delete(p)
    \/ deleteMeasurementSheet_cache(p)

\* ----------------------------------------------- MeasurementSheet.create
MeasurementSheet_create_start(p) ==
    \E c \in CustomerInputs, t \in TypeInputs :
      LET r == [op |-> "MeasurementSheet.create", sheet |-> 0,
                customerId |-> c, customerType |-> t]
      IN /\ sheetUuid + sheetsInFlight < MaxSheets
         /\ IF t \notin validCustomerTypes THEN Reject(p, r, 500)
            ELSE IF c \notin Customers THEN Reject(p, r, 404)
            ELSE Accept(p, r, "msc_insert")
         /\ UNCHANGED <<dbVars, cache, redisHost, redisFaulty, clientEntries, calc>>

\* INSERT inside the transaction: the row stays invisible until COMMIT,
\* the sequence value is gone for good
MeasurementSheet_create_insert(p) ==
    /\ pc[p] = "msc_insert"
    /\ LET n == measurement_sheet_seq
           row == [id |-> sheetUuid + 1,
                   measurement_sheet_number |-> measurement_sheet_number(n),
                   customer_type |-> req[p].customerType,
                   total_square_feet |-> 0, status |-> "draft"]
       IN /\ measurement_sheet_seq' = nextval(measurement_sheet_seq)
          /\ drawn' = Append(drawn, n)
          /\ sheetUuid' = sheetUuid + 1
          /\ IF \E r \in measurement_sheets :
                  r.measurement_sheet_number = row.measurement_sheet_number
               THEN Respond(p, 500, <<>>)
               ELSE /\ loc' = [loc EXCEPT ![p].sheet = row]
                    /\ Goto(p, "msc_commit")
    /\ UNCHANGED <<measurement_sheets, slab_entries, uuid, rowLock,
                   lockingClause, entryLock, cache, redisHost, redisFaulty, clientEntries, calc>>

\* a sequence that ROLLBACK takes back to the value before the INSERT
RollbackSeq_transactional(seqv, n) == seqv - 1

\* what ROLLBACK does to the sequence: nothing
RollbackSeq(seqv, n) == seqv

MeasurementSheet_create_commit(p) ==
    /\ pc[p] = "msc_commit"
    /\ \/ /\ measurement_sheets' = measurement_sheets \cup {loc[p].sheet}
          /\ Goto(p, "msc_cache")
          /\ UNCHANGED <<loc, measurement_sheet_seq>>
       \/ \* the transaction aborts: catch, ROLLBACK
          /\ measurement_sheet_seq' =
               RollbackSeq(measurement_sheet_seq, loc[p].sheet.id)
          /\ Respond(p, 500, <<>>)
          /\ UNCHANGED measurement_sheets
    /\ UNCHANGED <<slab_entries, uuid, sheetUuid, rowLock, lockingClause,
                   entryLock, drawn, cache, redisHost, redisFaulty, clientEntries, calc>>

MeasurementSheet_create_cache(p) ==
    /\ pc[p] = "msc_cache"
    /\ \E f1, f2, f3 \in RedisOutcomes :
         LET row == loc[p].sheet
             c1 == cache_set(cache, redisHost, f1,
                             Key("measurement_sheet", row.id),
                             [shape |-> "instance", sheet |-> row])
             c2 == cache_clearPattern(c1.cache, redisHost, f2,
                                      Key("measurement_sheets", 0))
             c3 == cache_clearPattern(c2.cache, redisHost, f3,
                                      Key("measurement_sheet_stats", 0))
         IN IF c1.raised THEN cache' = c1.cache /\ Respond(p, 500, <<>>)
            ELSE IF c2.raised THEN cache' = c2.cache /\ Respond(p, 500, <<>>)
            ELSE IF c3.raised THEN cache' = c3.cache /\ Respond(p, 500, <<>>)
            ELSE cache' = c3.cache /\ Respond(p, 201, <<>>)
    /\ UNCHANGED <<dbVars, redisHost, redisFaulty, clientEntries, calc>>

MeasurementSheet_create(p) ==
    \/ MeasurementSheet_create_start(p)
    \/ MeasurementSheet_create_insert(p)
    \/ MeasurementSheet_create_commit(p)
    \/ MeasurementSheet_create_cache(p)

\* ------------------------------------- GET /api/measurement-sheets/:id
\* the sheet row with its slab_entries attached
FullData(row, entries) ==
    [shape |-> "row", sheet |-> row, slab_entries |-> entries]

getMeasurementSheetById_start(p) ==
    \E s \in SheetIds :
      /\ Accept(p, [op |-> "getMeasurementSheetById", sheet |-> s],
                "gms_cacheget")
      /\ UNCHANGED <<dbVars, cache, redisHost, redisFaulty, clientEntries, calc>>

getMeasurementSheetById_cacheget(p) ==
    /\ pc[p] = "gms_cacheget"
    /\ \E f \in RedisOutcomes :
         LET c == cache_get(cache, redisHost, f,
                            Key("measurement_sheet_full", req[p].sheet))
         IN IF c.raised THEN Respond(p, 500, <<>>)
            ELSE IF c.ret # null THEN Respond(p, 200, c.ret)
            ELSE Goto(p, "gms_sheet") /\ UNCHANGED loc
    /\ UNCHANGED <<dbVars, cache, redisHost, redisFaulty, clientEntries, calc>>

getMeasurementSheetById_sheet(p) ==
    /\ pc[p] = "gms_sheet"
    /\ IF ~SheetExists(measurement_sheets, req[p].sheet)
         THEN Respond(p, 404, <<>>)
         ELSE /\ loc' = [loc EXCEPT ![p].sheet =
                           SheetRow(measurement_sheets, req[p].sheet)]
              /\ Goto(p, "gms_slabs")
    /\ UNCHANGED <<dbVars, cache, redisHost, redisFaulty, clientEntries, calc>>

getMeasurementSheetById_slabs(p) ==
    /\ pc[p] = "gms_slabs"
    /\ loc' = [loc EXCEPT ![p].createdEntries =
                 <<EntriesOf(slab_entries, req[p].sheet)>>]
    /\ Goto(p, "gms_cacheset")
    /\ UNCHANGED <<dbVars, cache, redisHost, redisFaulty, clientEntries, calc>>

getMeasurementSheetById_cacheset(p) ==
    /\ pc[p] = "gms_cacheset"
    /\ \E f \in RedisOutcomes :
         LET data == FullData(loc[p].sheet, loc[p].createdEntries[1])
             c == cache_set(cache, redisHost, f,
                            Key("measurement_sheet_full", req[p].sheet), data)
         IN /\ cache' = c.cache
            /\ IF c.raised THEN Respond(p, 500, <<>>)
               ELSE Respond(p, 200, data)
    /\ UNCHANGED <<dbVars, redisHost, redisFaulty, clientEntries, calc>>

getMeasurementSheetById(p) ==
    \/ getMeasurementSheetById_start(p)
    \/ getMeasurementSheetById_cacheget(p)
    \/ getMeasurementSheetById_sheet(p)
    \/ getMeasurementSheetById_slabs(p)
    \/ getMeasurementSheetById_cacheset(p)

\* --------------------------------------------- MeasurementSheet.findById
\* the constructor reads the snake_case columns of a row; of a cached
\* instance, whose properties are camelCase, it finds only id and status:
\* the other columns are undefined (the number: no text at all) and
\* parseFloat(undefined) || 0 is 0
MeasurementSheet(data) ==
    IF data.shape = "row"
      THEN [shape |-> "instance", sheet |-> data.sheet,
            slabEntries |-> IF "slab_entries" \in DOMAIN data
                              THEN data.slab_entries ELSE {}]
      ELSE [shape |-> "instance",
            sheet |-> [id |-> data.sheet.id,
                       measurement_sheet_number |-> <<>>,
                       customer_type |-> Null, total_square_feet |-> 0,
                       status |-> data.sheet.status],
            slabEntries |-> {}]

findByIdKey(id, includeSlabEntries) ==
    IF includeSlabEntries THEN Key("measurement_sheet_full", id)
    ELSE Key("measurement_sheet", id)

MeasurementSheet_findById_start(p) ==
    \E s \in SheetIds, inc \in BOOLEAN :
      /\ Accept(p, [op |-> "MeasurementSheet.findById", sheet |-> s,
                    includeSlabEntries |-> inc], "fbi_cacheget")
      /\ UNCHANGED <<dbVars, cache, redisHost, redisFaulty, clientEntries, calc>>

MeasurementSheet_findById_cacheget(p) ==
    /\ pc[p] = "fbi_cacheget"
    /\ \E f \in RedisOutcomes :
         LET c == cache_get(cache, redisHost, f,
                     findByIdKey(req[p].sheet, req[p].includeSlabEntries))
         IN IF c.raised THEN Respond(p, 500, <<>>)
            ELSE IF c.ret # null THEN Respond(p, 200, MeasurementSheet(c.ret))
            ELSE Goto(p, "fbi_sheet") /\ UNCHANGED loc
    /\ UNCHANGED <<dbVars, cache, redisHost, redisFaulty, clientEntries, calc>>

MeasurementSheet_findById_sheet(p) ==
    /\ pc[p] = "fbi_sheet"
    /\ IF ~SheetExists(measurement_sheets, req[p].sheet)
         THEN Respond(p, 404, <<>>)
         ELSE /\ loc' = [loc EXCEPT ![p].sheet =
                           SheetRow(measurement_sheets, req[p].sheet)]
              /\ Goto(p, IF req[p].includeSlabEntries THEN "fbi_slabs"
                         ELSE "fbi_cacheset")
    /\ UNCHANGED <<dbVars, cache, redisHost, redisFaulty, clientEntries, calc>>

MeasurementSheet_findById_slabs(p) ==
    /\ pc[p] = "fbi_slabs"
    /\ loc' = [loc EXCEPT ![p].createdEntries =
                 <<EntriesOf(slab_entries, req[p].sheet)>>]
    /\ Goto(p, "fbi_cacheset")
    /\ UNCHANGED <<dbVars, cache, redisHost, redisFaulty, clientEntries, calc>>

MeasurementSheet_findById_cacheset(p) ==
    /\ pc[p] = "fbi_cacheset"
    /\ \E f \in RedisOutcomes :
         LET data == IF req[p].includeSlabEntries
                       THEN FullData(loc[p].sheet, loc[p].createdEntries[1])
                       ELSE [shape |-> "row", sheet |-> loc[p].sheet]
             c == cache_set(cache, redisHost, f,
                     findByIdKey(req[p].sheet, req[p].includeSlabEntries), data)
         IN /\ cache' = c.cache
            /\ IF c.raised THEN Respond(p, 500, <<>>)
               ELSE Respond(p, 200, MeasurementSheet(data))
    /\ UNCHANGED <<dbVars, redisHost, redisFaulty, clientEntries, calc>>

MeasurementSheet_findById(p) ==
    \/ MeasurementSheet_findById_start(p)
    \/ MeasurementSheet_findById_cacheget(p)
    \/ MeasurementSheet_findById_sheet(p)
    \/ MeasurementSheet_findById_slabs(p)
    \/ MeasurementSheet_findById_cacheset(p)

\* -------------------------- GET /api/measurement-sheets/:id/export/csv
exportMeasurementSheetToCSV_start(p) ==
    \E s \in SheetIds :
      /\ Accept(p, [op |-> "exportMeasurementSheetToCSV", sheet |-> s],
                "csv_sheet")
      /\ UNCHANGED <<dbVars, cache, redisHost, redisFaulty, clientEntries, calc>>

exportMeasurementSheetToCSV_sheet(p) ==
    /\ pc[p] = "csv_sheet"
    /\ loc' = [loc EXCEPT ![p].sheet =
                 IF SheetExists(measurement_sheets, req[p].sheet)
                   THEN SheetRow(measurement_sheets, req[p].sheet)
                   ELSE NoRow]
    /\ Goto(p, "csv_slabs")
    /\ UNCHANGED <<dbVars, cache, redisHost, redisFaulty, clientEntries, calc>>

exportMeasurementSheetToCSV_slabs(p) ==
    /\ pc[p] = "csv_slabs"
    /\ IF loc[p].sheet = NoRow THEN Respond(p, 404, <<>>)
       ELSE Respond(p, 200,
                    FullData(loc[p].sheet, EntriesOf(slab_entries, req[p].sheet)))
    /\ UNCHANGED <<dbVars, cache, redisHost, redisFaulty, clientEntries, calc>>

exportMeasurementSheetToCSV(p) ==
    \/ exportMeasurementSheetToCSV_start(p)
    \/ exportMeasurementSheetToCSV_sheet(p)
    \/ exportMeasurementSheetToCSV_slabs(p)

\* ===================================================== calculation engine
\* (src/utils/calculationEngine.js, called by the slab entry form)
NoCalc == [call |-> "none"]

\* ---- JavaScript numbers: IEEE 754 binary64, round to nearest, ties to even
\* A natural number of any size is the sequence of its digits in base Limb,
\* least significant first, without a leading zero digit (zero is <<>>).
Limb == 32768
LimbBits == 15
Precision == 53

RECURSIVE Trim(_)
Trim(a) ==
    IF a # <<>> /\ a[Len(a)] = 0 THEN Trim(SubSeq(a, 1, Len(a) - 1)) ELSE a

RECURSIVE Big(_)
Big(n) == IF n = 0 THEN <<>> ELSE <<n % Limb>> \o Big(n \div Limb)

RECURSIVE Small(_)
Small(a) == IF a = <<>> THEN 0 ELSE a[1] + Limb * Small(Tail(a))

Digit(a, i) == IF i <= Len(a) THEN a[i] ELSE 0

RECURSIVE AddFrom(_, _, _, _)
AddFrom(a, b, i, carry) ==
    IF i > Len(a) /\ i > Len(b) THEN Big(carry)
    ELSE LET t == Digit(a, i) + Digit(b, i) + carry
         IN <<t % Limb>> \o AddFrom(a, b, i + 1, t \div Limb)

Add(a, b) == AddFrom(a, b, 1, 0)

\* a - b for a >= b
RECURSIVE SubFrom(_, _, _, _)
SubFrom(a, b, i, borrow) ==
    IF i > Len(a) THEN <<>>
    ELSE LET t == Digit(a, i) - Digit(b, i) - borrow
         IN <<(t + Limb) % Limb>>
              \o SubFrom(a, b, i + 1, IF t < 0 THEN 1 ELSE 0)

Sub(a, b) == Trim(SubFrom(a, b, 1, 0))

RECURSIVE Less(_, _)
Less(a, b) ==
    IF Len(a) # Len(b) THEN Len(a) < Len(b)
    ELSE IF a = <<>> THEN FALSE
    ELSE IF a[Len(a)] # b[Len(b)] THEN a[Len(a)] < b[Len(b)]
    ELSE Less(SubSeq(a, 1, Len(a) - 1), SubSeq(b, 1, Len(b) - 1))

\* a * k for a digit k
RECURSIVE TimesFrom(_, _, _, _)
TimesFrom(a, k, i, carry) ==
    IF i > Len(a) THEN Big(carry)
    ELSE LET t == a[i] * k + carry
         IN <<t % Limb>> \o TimesFrom(a, k, i + 1, t \div Limb)

Times(a, k) == Trim(TimesFrom(a, k, 1, 0))

RECURSIVE Mul(_, _)
Mul(a, b) ==
    IF b = <<>> THEN <<>>
    ELSE LET rest == Mul(a, Tail(b))
         IN Add(Times(a, b[1]), IF rest = <<>> THEN <<>> ELSE <<0>> \o rest)

\* quotient and remainder of a by a digit d
RECURSIVE DivRem(_, _)
DivRem(a, d) ==
    IF a = <<>> THEN [q |-> <<>>, r |-> 0]
    ELSE LET hi == DivRem(Tail(a), d)
             cur == hi.r * Limb + a[1]
         IN [q |-> <<cur \div d>> \o hi.q, r |-> cur % d]

\* a * 2^n and the integer part of a / 2^n
Shl(a, n) ==
    IF a = <<>> THEN <<>>
    ELSE [i \in 1..(n \div LimbBits) |-> 0] \o Times(a, 2 ^ (n % LimbBits))

Shr(a, n) ==
    IF n \div LimbBits >= Len(a) THEN <<>>
    ELSE Trim(DivRem(SubSeq(a, n \div LimbBits + 1, Len(a)),
                     2 ^ (n % LimbBits)).q)

BitLen(a) ==
    IF a = <<>> THEN 0
    ELSE LimbBits * (Len(a) - 1)
           + (CHOOSE k \in 1..LimbBits :
                2 ^ (k - 1) <= a[Len(a)] /\ a[Len(a)] < 2 ^ k)


\* A number is sign * m * 2^e with m a natural number of at most Precision
\* bits, kept odd (zero is m = <<>>, e = 0).
Zero == [s |-> 1, m |-> <<>>, e |-> 0]

Odd(n, e) ==
    IF n = <<>> THEN Zero
    ELSE LET i == CHOOSE j \in 1..Len(n) :
                    n[j] # 0 /\ \A h \in 1..(j - 1) : n[h] = 0
             t == CHOOSE k \in 0..(LimbBits - 1) : n[i] % 2 ^ (k + 1) = 2 ^ k
             z == LimbBits * (i - 1) + t
         IN [s |-> 1, m |-> Shr(n, z), e |-> e + z]

\* the number nearest to (n + d) * 2^e, where 0 <= d < 1 and d > 0 iff sticky;
\* a sticky n has more than Precision bits
Nearest(n, e, sticky) ==
    LET k == BitLen(n) - Precision
    IN IF k <= 0 THEN Odd(n, e)
       ELSE LET q == Shr(n, k)
                rem == Sub(n, Shl(q, k))
                half == Shl(<<1>>, k - 1)
                up == \/ Less(half, rem)
                      \/ rem = half /\ (sticky \/ q[1] % 2 = 1)
            IN Odd(IF up THEN Add(q, <<1>>) ELSE q, e + k)

Neg(x) == IF x.m = <<>> THEN x ELSE [x EXCEPT !.s = -x.s]

\* the number a numeric literal of h hundredths denotes
Number(h) ==
    LET t == DivRem(Shl(Big(IF h < 0 THEN -h ELSE h), 70), 100)
        x == Nearest(Trim(t.q), -70, t.r # 0)
    IN IF h < 0 THEN Neg(x) ELSE x

\* x * y
Product(x, y) ==
    LET z == Nearest(Mul(x.m, y.m), x.e + y.e, FALSE)
    IN IF x.s = y.s THEN z ELSE Neg(z)

\* x / d for a positive integer d below Limb
Quotient(x, d) ==
    LET t == DivRem(Shl(x.m, 70), d)
        z == Nearest(Trim(t.q), x.e - 70, t.r # 0)
    IN IF x.s = 1 THEN z ELSE Neg(z)

\* x - y for x >= 0 and y >= 0
Difference(x, y) ==
    LET e == IF x.e < y.e THEN x.e ELSE y.e
        a == Shl(x.m, x.e - e)
        b == Shl(y.m, y.e - e)
    IN IF Less(a, b) THEN Neg(Nearest(Sub(b, a), e, FALSE))
       ELSE Nearest(Sub(a, b), e, FALSE)

\* x < y, x > 0, Math.max(x, 0)
LessThan(x, y) ==
    IF x.s = -1 THEN y.s = 1 \/ Difference(Neg(y), Neg(x)).s = -1
    ELSE y.s = 1 /\ Difference(x, y).s = -1
Positive(x) == x.s = 1 /\ x.m # <<>>
MathMax0(x) == IF x.s = -1 THEN Zero ELSE x

\* x % 3 === 0: x is an integer and a multiple of 3
Mod3IsZero(x) == x.m = <<>> \/ (x.e >= 0 /\ DivRem(x.m, 3).r = 0)

\* Math.round(x) for x >= 0: the integer floor(x + 1/2), exactly
MathRound(x) ==
    IF x.e >= 0 THEN Small(Shl(x.m, x.e))
    ELSE Small(Shr(Add(x.m, Shl(<<1>>, -x.e - 1)), -x.e))

\* ---- the engine.  A raw argument is what the caller passes for a
\* dimension: digits tells whether its text starts with a number, lead is
\* that number in hundredths, tail is the text after it; a JavaScript number
\* has tail "", and null, undefined and '' are Missing.
Missing == [digits |-> FALSE, lead |-> 0, tail |-> ""]
NaN == [s |-> 0, m |-> <<>>, e |-> 0]
parseFloat(raw) == IF raw.digits THEN Number(raw.lead) ELSE NaN

CUSTOMER_TYPES ==
    {"retail", "granite_shops", "builders", "outstation_parties", "exporters"}
maxIterations == 100

\* while (processed % 3 !== 0 && processed > 0 && iterations < maxIterations)
\* one pass through the loop: its test, then its body
LoopContinues_noceiling(st) ==
    ~Mod3IsZero(st.processed) /\ Positive(st.processed)

LoopContinues(st) ==
    ~Mod3IsZero(st.processed) /\ Positive(st.processed)
      /\ st.iterations < maxIterations

LoopBody(st) ==
    [processed |-> Difference(st.processed, Number(100)),
     iterations |-> st.iterations + 1]

\* the state after at most n more passes, by halving n
RECURSIVE Passes(_, _)
Passes(st, n) ==
    IF n = 0 \/ ~LoopContinues(st) THEN st
    ELSE IF n = 1 THEN LoopBody(st)
    ELSE Passes(Passes(st, n \div 2), n - n \div 2)

DecrementLoop(processed, iterations) ==
    Passes([processed |-> processed, iterations |-> iterations],
           maxIterations - iterations)

\* the adjuster without its decrement loop
processForDivisibility_noloop(raw, subtrahend) ==
    IF LessThan(raw, subtrahend) THEN Zero
    ELSE MathMax0(Difference(raw, subtrahend))

processForDivisibility(raw, subtrahend) ==
    IF LessThan(raw, subtrahend) THEN Zero
    ELSE LET loop == DecrementLoop(Difference(raw, subtrahend), 0)
         IN IF loop.iterations >= maxIterations THEN Zero
            ELSE MathMax0(loop.processed)

processLengthForDivisibility(length) ==
    processForDivisibility(length, Number(300))

processBreadthForDivisibility(breadth) ==
    processForDivisibility(breadth, Number(200))

\* squareInches = finalLength * finalBreadth; squareFeet = squareInches / 144;
\* throw unless isFinite(squareFeet) && squareFeet >= 0; the result carries
\* Math.round(squareFeet * 100) / 100
CalculationResult(finalLength, finalBreadth) ==
    LET squareInches == Product(finalLength, finalBreadth)
        squareFeet == Quotient(squareInches, 144)
    IN IF squareFeet.s = -1 THEN [type |-> "calculation"]
       ELSE [ type |-> "result",
              finalLength |-> finalLength,
              finalBreadth |-> finalBreadth,
              squareFeet |->
                Quotient(Odd(Big(MathRound(Product(squareFeet, Number(10000)))),
                             0), 100) ]

calculateRetail(length, breadth) == CalculationResult(length, breadth)

calculateGraniteShops(length, breadth) ==
    CalculationResult(processLengthForDivisibility(length),
                      processBreadthForDivisibility(breadth))

calculateBuilders(length, breadth) ==
    CalculationResult(processLengthForDivisibility(length), breadth)

calculateExporters(length, breadth) ==
    CalculationResult(MathMax0(Difference(length, Number(300))),
                      MathMax0(Difference(breadth, Number(200))))

\* Outstation Parties computed by the Builders rule
calculateOutstationParties_asBuilders(length, breadth) ==
    calculateBuilders(length, breadth)

calculateOutstationParties(length, breadth) ==
    calculateGraniteShops(length, breadth)

\* the messages pushed for one dimension
DimensionErrors(raw, name) ==
    IF raw = Missing THEN <<<<name, "is required">>>>
    ELSE LET num == parseFloat(raw)
         IN IF num = NaN THEN <<<<name, "must be a valid number">>>>
            ELSE IF ~Positive(num) THEN <<<<name, "must be greater than 0">>>>
            ELSE IF LessThan(Number(MaxDimension * 100), num)
              THEN <<<<name, "cannot exceed 10,000 inches">>>>
            ELSE <<>>

CustomerTypeErrors(customerType) ==
    IF customerType = Null THEN <<<<"Customer type", "is required">>>>
    ELSE IF customerType \notin CUSTOMER_TYPES
      THEN <<<<"Customer type", "Invalid customer type">>>>
    ELSE <<>>

calculateSquareFeet(length, breadth, customerType) ==
    LET validationErrors == DimensionErrors(length, "Length")
                              \o DimensionErrors(breadth, "Breadth")
                              \o CustomerTypeErrors(customerType)
        numLength == parseFloat(length)
        numBreadth == parseFloat(breadth)
    IN IF validationErrors # <<>>
         THEN [type |-> "validation", details |-> validationErrors]
       ELSE IF customerType = "retail"
         THEN calculateRetail(numLength, numBreadth)
       ELSE IF customerType = "granite_shops"
         THEN calculateGraniteShops(numLength, numBreadth)
       ELSE IF customerType = "builders"
         THEN calculateBuilders(numLength, numBreadth)
       ELSE IF customerType = "exporters"
         THEN calculateExporters(numLength, numBreadth)
       ELSE calculateOutstationParties(numLength, numBreadth)

\* calculationEngine.processLength / processBreadth
processLength(length, customerType) ==
    IF customerType \in {"granite_shops", "builders", "outstation_parties"}
      THEN processLengthForDivisibility(length)
    ELSE IF customerType = "exporters"
      THEN MathMax0(Difference(length, Number(300)))
    ELSE length

processBreadth(breadth, customerType) ==
    IF customerType \in {"granite_shops", "outstation_parties"}
      THEN processBreadthForDivisibility(breadth)
    ELSE IF customerType = "exporters"
      THEN MathMax0(Difference(breadth, Number(200)))
    ELSE breadth

\* ------------------------------------------------------------ the system
EmptyCache == [k \in CacheKeys |-> null]

InitDb ==
    /\ measurement_sheets = {}
    /\ measurement_sheet_seq = SeqStart
    /\ slab_entries = {}
    /\ uuid = 0
    /\ sheetUuid = 0
    /\ rowLock = [s \in SheetIds |-> 0]
    /\ entryLock = [s \in SheetIds |-> 0]
    /\ lockingClause \in {"rejected", "rowlocks"}
    /\ drawn = <<>>

Idle ==
    /\ pc = [p \in Procs |-> "idle"]
    /\ req = [p \in Procs |-> NoReq]
    /\ loc = [p \in Procs |-> NoLoc]
    /\ res = [p \in Procs |-> NoRes]
    /\ calc = NoCalc

InitSlots ==
    /\ Idle
    /\ reqLeft = MaxReq
    /\ clientEntries = EntryInputs

Init ==
    /\ InitDb
    /\ InitSlots
    /\ cache = EmptyCache
    /\ redisHost = FALSE
    /\ redisFaulty = FALSE

\* the database after one sheet has been created
FirstSheet ==
    [id |-> 1, measurement_sheet_number |-> measurement_sheet_number(SeqStart),
     customer_type |-> "Retail", total_square_feet |-> 0, status |-> "draft"]

InitOneSheet ==
    /\ measurement_sheets = {FirstSheet}
    /\ measurement_sheet_seq = nextval(SeqStart)
    /\ slab_entries = {}
    /\ uuid = 0
    /\ sheetUuid = 1
    /\ rowLock = [s \in SheetIds |-> 0]
    /\ entryLock = [s \in SheetIds |-> 0]
    /\ lockingClause \in {"rejected", "rowlocks"}
    /\ drawn = <<SeqStart>>
    /\ InitSlots
    /\ cache = EmptyCache
    /\ redisHost = FALSE
    /\ redisFaulty = FALSE

\* the rows k successive POST /api/slab-entries leave in that sheet
PreloadArea(i) == 2 + (i % 2)
Preloaded(k) ==
    { NewSlabRow(i, 1, i, [length |-> 5, breadth |-> 4,
                           squareFeet |-> PreloadArea(i)]) : i \in 1..k }

EntriesDb ==
    \E k \in 0..MaxPreload :
      /\ slab_entries = Preloaded(k)
      /\ measurement_sheets =
           update_measurement_sheet_total({FirstSheet}, Preloaded(k), 1)
      /\ uuid = k
      /\ measurement_sheet_seq = nextval(SeqStart)
      /\ sheetUuid = 1
      /\ rowLock = [s \in SheetIds |-> 0]
      /\ entryLock = [s \in SheetIds |-> 0]
      /\ lockingClause \in {"rejected", "rowlocks"}
      /\ drawn = <<SeqStart>>
      /\ cache = EmptyCache
      /\ redisHost = FALSE
      /\ redisFaulty = FALSE

InitEntries == EntriesDb /\ InitSlots

\* line-item traffic on a database that holds one sheet
NextEntries ==
    \E p \in Procs :
      \/ createSlabEntry(p)
      \/ updateSlabEntry(p)
      \/ deleteSlabEntry(p)
      \/ batchCreateSlabEntries(p)
      \/ SlabEntry_create(p)
      \/ SlabEntry_batchCreate(p)
      \/ SlabEntry_update(p)
      \/ SlabEntry_delete(p)
      \/ deleteMeasurementSheet(p)

SpecEntries == InitEntries /\ [][NextEntries]_vars


\* POST /batch next to single inserts and deletes, on a sheet that holds
\* one entry
InitBatch ==
    /\ EntriesDb
    /\ Cardinality(slab_entries) = 1
    /\ lockingClause = "rowlocks"
    /\ Idle
    /\ reqLeft = MaxBatchReq
    /\ clientEntries = EntryInputs

NextBatch ==
    \E p \in Procs :
      \/ batchCreateSlabEntries(p)
      \/ createSlabEntry(p)
      \/ deleteSlabEntry(p)

SpecBatch == InitBatch /\ [][NextBatch]_vars

\* N concurrent inserts into one empty sheet, the server honouring the
\* locking clause
InitRace ==
    /\ InitOneSheet
    /\ lockingClause = "rowlocks"

NextRace ==
    \E p \in Procs :
      \/ createSlabEntry(p)
      \/ SlabEntry_create(p)

SpecRace == InitRace /\ [][NextRace]_vars

\* sheets created, completed, reopened and deleted, from an empty database
\* or from one holding a first sheet
InitSheets == Init \/ InitOneSheet

NextSheets ==
    \E p \in Procs :
      \/ createMeasurementSheet(p)
      \/ MeasurementSheet_create(p)
      \/ updateMeasurementSheet(p)
      \/ MeasurementSheet_update(p)
      \/ deleteMeasurementSheet(p)

SpecSheets == InitSheets /\ [][NextSheets]_vars

\* readers of a sheet with its entries next to writers of entries
NextRead ==
    \E p \in Procs :
      \/ getMeasurementSheetById(p)
      \/ MeasurementSheet_findById(p)
      \/ exportMeasurementSheetToCSV(p)
      \/ createSlabEntry(p)
      \/ updateSlabEntry(p)
      \/ deleteSlabEntry(p)

SpecRead == InitEntries /\ [][NextRead]_vars

\* the handlers that use the cache, with Redis configured or not, on a
\* database holding one sheet with one entry that has been read through both
\* cached readers
SheetWithEntry ==
    SheetRow(update_measurement_sheet_total({FirstSheet}, Preloaded(1), 1), 1)

WarmCache ==
    [k \in CacheKeys |->
       IF k = Key("measurement_sheet", 1)
         THEN [shape |-> "row", sheet |-> SheetWithEntry]
       ELSE IF k = Key("measurement_sheet_full", 1)
         THEN FullData(SheetWithEntry, Preloaded(1))
       ELSE null]

InitCache ==
    /\ slab_entries = Preloaded(1)
    /\ measurement_sheets = {SheetWithEntry}
    /\ uuid = 1
    /\ measurement_sheet_seq = nextval(SeqStart)
    /\ sheetUuid = 1
    /\ rowLock = [s \in SheetIds |-> 0]
    /\ entryLock = [s \in SheetIds |-> 0]
    /\ lockingClause = "rowlocks"
    /\ drawn = <<SeqStart>>
    /\ InitSlots
    /\ redisHost \in BOOLEAN
    /\ redisFaulty \in (IF redisHost THEN BOOLEAN ELSE {FALSE})
    /\ cache = IF redisHost THEN WarmCache ELSE EmptyCache

NextCache ==
    \E p \in Procs :
      \/ createMeasurementSheet(p)
      \/ updateMeasurementSheet(p)
      \/ MeasurementSheet_update(p)
      \/ deleteMeasurementSheet(p)
      \/ createSlabEntry(p)
      \/ updateSlabEntry(p)
      \/ deleteSlabEntry(p)
      \/ batchCreateSlabEntries(p)
      \/ SlabEntry_create(p)
      \/ SlabEntry_update(p)
      \/ getMeasurementSheetById(p)
      \/ MeasurementSheet_findById(p)

SpecCache == InitCache /\ [][NextCache]_vars

\* the slab entry routes fed with bodies at and beyond the limits of the
\* validator: a dimension above 10,000 inches, a negative area
DimensionInputs ==
    { [length |-> 5, breadth |-> 4, squareFeet |-> 2],
      [length |-> MaxDimension, breadth |-> 4, squareFeet |-> 3],
      [length |-> MaxDimension + 1, breadth |-> 4, squareFeet |-> 2],
      [length |-> 5, breadth |-> 4, squareFeet |-> -1] }

InitDimensions ==
    /\ EntriesDb
    /\ lockingClause = "rowlocks"
    /\ Idle
    /\ reqLeft = MaxReq
    /\ clientEntries = DimensionInputs

NextDimensions ==
    \E p \in Procs :
      \/ createSlabEntry(p)
      \/ batchCreateSlabEntries(p)
      \/ updateSlabEntry(p)

SpecDimensions == InitDimensions /\ [][NextDimensions]_vars

\* sheet updates next to slab entry writes, on one sheet of either customer
\* type that holds no entry or one
SheetTypes == {"Retail", "Builders"}

InitTypes ==
    \E t \in SheetTypes, k \in 0..1 :
      /\ slab_entries = Preloaded(k)
      /\ measurement_sheets =
           {[FirstSheet EXCEPT !.customer_type = t,
                               !.total_square_feet = SumArea(Preloaded(k))]}
      /\ uuid = k
      /\ measurement_sheet_seq = nextval(SeqStart)
      /\ sheetUuid = 1
      /\ rowLock = [s \in SheetIds |-> 0]
      /\ entryLock = [s \in SheetIds |-> 0]
      /\ lockingClause = "rowlocks"
      /\ drawn = <<SeqStart>>
      /\ cache = EmptyCache
      /\ redisHost = FALSE
      /\ redisFaulty = FALSE
      /\ InitSlots

NextTypes ==
    \E p \in Procs :
      \/ updateMeasurementSheet(p)
      \/ MeasurementSheet_update(p)
      \/ createSlabEntry(p)
      \/ updateSlabEntry(p)
      \/ deleteSlabEntry(p)

SpecTypes == InitTypes /\ [][NextTypes]_vars

\* calls of the calculation engine: the arguments are drawn first, then one
\* of the engine's methods is applied to them
Num(h) == [digits |-> TRUE, lead |-> h, tail |-> ""]
LengthInputs ==
    { Num(h) : h \in {-500, 0, 1, 250, 300, 309, 840, 1200, 2004, 10000,
                      14400, 14900, 15000, 15050, MaxDimension * 100,
                      MaxDimension * 100 + 1} }
      \cup { Missing, [Missing EXCEPT !.tail = "abc"],
             [Num(1200) EXCEPT !.tail = "abc"] }
BreadthInputs ==
    { Num(h) : h \in {0, 150, 200, 360, 960, 1000, 5000, 5400, 10000, 14400,
                      14500, 14600, 14650, MaxDimension * 100 + 1} }
      \cup { Missing, [Missing EXCEPT !.tail = "abc"] }
CustomerTypeInputs == CUSTOMER_TYPES \cup {Null, "wholesale"}

InitEngine ==
    /\ InitDb
    /\ lockingClause = "rowlocks"
    /\ cache = EmptyCache
    /\ redisHost = FALSE
    /\ redisFaulty = FALSE
    /\ pc = [p \in Procs |-> "idle"]
    /\ req = [p \in Procs |-> NoReq]
    /\ loc = [p \in Procs |-> NoLoc]
    /\ res = [p \in Procs |-> NoRes]
    /\ reqLeft = 0
    /\ clientEntries = {}
    /\ \E l \in LengthInputs, b \in BreadthInputs, t \in CustomerTypeInputs :
         calc = [call |-> "pending", length |-> l, breadth |-> b,
                 customerType |-> t, result |-> NoCalc]

Returned(method, value) ==
    /\ calc.call = "pending"
    /\ calc' = [calc EXCEPT !.call = method, !.result = value]
    /\ UNCHANGED <<dbVars, cache, redisHost, redisFaulty, clientEntries,
                   pc, req, loc, res, reqLeft>>

calculateSquareFeet_call ==
    Returned("calculateSquareFeet",
             calculateSquareFeet(calc.length, calc.breadth, calc.customerType))

\* the two processing methods, called with a number
processLength_call ==
    /\ calc.length.digits /\ calc.length.tail = ""
    /\ Returned("processLength",
                processLength(parseFloat(calc.length), calc.customerType))

processBreadth_call ==
    /\ calc.breadth.digits /\ calc.breadth.tail = ""
    /\ Returned("processBreadth",
                processBreadth(parseFloat(calc.breadth), calc.customerType))

NextEngine ==
    \/ calculateSquareFeet_call
    \/ processLength_call
    \/ processBreadth_call

SpecEngine == InitEngine /\ [][NextEngine]_vars

\* line-item traffic on a database that holds two sheets, the first with
\* no entry or one, the second with one
SecondSheet ==
    [id |-> 2,
     measurement_sheet_number |-> measurement_sheet_number(nextval(SeqStart)),
     customer_type |-> "Retail", total_square_feet |-> 0, status |-> "draft"]

InitFrame ==
    /\ \E k \in 0..1 :
         LET rows == Preloaded(k)
                       \cup {NewSlabRow(k + 1, 2, 1,
                                        [length |-> 5, breadth |-> 4,
                                         squareFeet |-> 3])}
         IN /\ slab_entries = rows
            /\ measurement_sheets =
                 update_measurement_sheet_total(
                     update_measurement_sheet_total(
                         {FirstSheet, SecondSheet}, rows, 1), rows, 2)
            /\ uuid = k + 1
    /\ measurement_sheet_seq = nextval(nextval(SeqStart))
    /\ sheetUuid = 2
    /\ rowLock = [s \in SheetIds |-> 0]
    /\ entryLock = [s \in SheetIds |-> 0]
    /\ lockingClause \in {"rejected", "rowlocks"}
    /\ drawn = <<SeqStart, nextval(SeqStart)>>
    /\ cache = EmptyCache
    /\ redisHost = FALSE
    /\ redisFaulty = FALSE
    /\ InitSlots

NextFrame ==
    \E p \in Procs :
      \/ createSlabEntry(p)
      \/ SlabEntry_create(p)
      \/ updateSlabEntry(p)
      \/ deleteSlabEntry(p)
      \/ SlabEntry_update(p)
      \/ SlabEntry_delete(p)

SpecFrame == InitFrame /\ [][NextFrame]_vars

\* the two invalidating helpers called on any cache content
MaxCalls == 2
Patterns ==
    { Key(f, 0) : f \in {"measurement_sheets", "measurement_sheet_stats",
                          "slab_entries"} }
    \cup { Key("slab_entries", s) : s \in SheetIds }

CachedValue(k) ==
    IF k.fam = "measurement_sheet"
      THEN [shape |-> "row",
            sheet |-> IF k.id = 1 THEN FirstSheet ELSE SecondSheet]
    ELSE IF k.fam = "measurement_sheet_full"
      THEN FullData(IF k.id = 1 THEN FirstSheet ELSE SecondSheet, {})
    ELSE [shape |-> "list"]

InitInvalidate ==
    /\ InitDb
    /\ lockingClause = "rowlocks"
    /\ Idle
    /\ reqLeft = MaxCalls
    /\ clientEntries = {}
    /\ redisHost \in BOOLEAN
    /\ redisFaulty \in (IF redisHost THEN BOOLEAN ELSE {FALSE})
    /\ \E S \in SUBSET CacheKeys :
         cache = [k \in CacheKeys |-> IF k \in S THEN CachedValue(k) ELSE null]

Called(method, key, r) ==
    /\ reqLeft > 0
    /\ reqLeft' = reqLeft - 1
    /\ cache' = r.cache
    /\ calc' = [call |-> method, key |-> key, before |-> cache,
                ret |-> r.ret, raised |-> r.raised]
    /\ UNCHANGED <<dbVars, redisHost, redisFaulty, clientEntries,
                   pc, req, loc, res>>

cache_del_call ==
    \E k \in CacheKeys, f \in RedisOutcomes :
      Called("cache.del", k, cache_del(cache, redisHost, f, k))

cache_clearPattern_call ==
    \E pat \in Patterns, f \in RedisOutcomes :
      Called("cache.clearPattern", pat,
             cache_clearPattern(cache, redisHost, f, pat))

NextInvalidate ==
    \/ cache_del_call
    \/ cache_clearPattern_call

SpecInvalidate == InitInvalidate /\ [][NextInvalidate]_vars

\* inserts and deletes on one sheet that holds up to MaxPreload entries
InitSerials ==
    /\ EntriesDb
    /\ lockingClause = "rowlocks"
    /\ InitSlots

NextSerials ==
    \E p \in Procs :
      \/ createSlabEntry(p)
      \/ SlabEntry_create(p)
      \/ deleteSlabEntry(p)

\* a request that has been accepted runs to its response: the event loop
\* resumes it after each await, and a lock it waits for is released when the
\* holder's transaction ends; no new request has to arrive
SerialsInFlight(p) ==
    /\ pc[p] # "idle"
    /\ (createSlabEntry(p) \/ SlabEntry_create(p) \/ deleteSlabEntry(p))

SpecSerials ==
    /\ InitSerials
    /\ [][NextSerials]_vars
    /\ \A p \in Procs : WF_vars(SerialsInFlight(p))

\* sheet creation late in the life of the sequence: one earlier sheet, which
\* drew the value m, is still there and the sequence stands at n
SeqInputs == {1, 999, 1000, 9999}

InitNumbers ==
    /\ \E m \in SeqInputs : \E n \in {m + 1, 10 * m, 10000} :
         /\ m < n
         /\ measurement_sheets =
              {[FirstSheet EXCEPT
                  !.measurement_sheet_number = measurement_sheet_number(m)]}
         /\ measurement_sheet_seq = n
         /\ drawn = <<m>>
    /\ slab_entries = {}
    /\ uuid = 0
    /\ sheetUuid = 1
    /\ rowLock = [s \in SheetIds |-> 0]
    /\ entryLock = [s \in SheetIds |-> 0]
    /\ lockingClause = "rowlocks"
    /\ cache = EmptyCache
    /\ redisHost = FALSE
    /\ redisFaulty = FALSE
    /\ InitSlots

NextNumbers ==
    \E p \in Procs :
      \/ createMeasurementSheet(p)
      \/ MeasurementSheet_create(p)
      \/ deleteMeasurementSheet(p)

SpecNumbers == InitNumbers /\ [][NextNumbers]_vars

\* ------------------------------------------------ useErrorHandler.retry
\* what the operation handed to retry does when it is run: it resolves, or
\* it rejects with a string, with an error without a response, or with an
\* error that carries an HTTP response
Statuses == {400, 401, 403, 404, 409, 422, 429, 499, 500, 502, 503}

Outcomes ==
    {[kind |-> "resolved", status |-> 0], [kind |-> "string", status |-> 0],
     [kind |-> "noResponse", status |-> 0]}
    \cup {[kind |-> "response", status |-> st] : st \in Statuses}

RetryInputs == 0..3
defaultMaxRetries == 3

NoError == [type |-> "none", hasOriginal |-> FALSE, status |-> 0]

\* status: originalError.response.status, 0 where there is none
transformDefaultError(error) ==
    IF error.kind = "string"
      THEN [type |-> "string", hasOriginal |-> FALSE, status |-> 0]
    ELSE IF error.kind = "noResponse"
      THEN [type |-> "network", hasOriginal |-> TRUE, status |-> 0]
    ELSE [type |-> CASE error.status \in {400, 422} -> "validation"
                     [] error.status = 401 -> "authorization"
                     [] error.status = 403 -> "permission"
                     [] error.status = 404 -> "notFound"
                     [] error.status = 409 -> "conflict"
                     [] error.status = 429 -> "rateLimit"
                     [] error.status = 500 -> "server"
                     [] error.status = 503 -> "service"
                     [] OTHER -> "unknown",
          hasOriginal |-> TRUE, status |-> error.status]

isClientError_never(err) == FALSE

\* err.originalError?.response?.status >= 400 && ... < 500
isClientError(err) ==
    err.hasOriginal /\ err.status >= 400 /\ err.status < 500

\* the for statement's test, taken on entry and after each increment
retry_loop(c) ==
    IF c.attempt <= c.maxRetries THEN [c EXCEPT !.at = "try"]
    ELSE [c EXCEPT !.at = "thrown", !.thrown = c.lastError]

\* executeWithErrorHandling(operation, {clearPreviousError: attempt === 1})
\* and the catch clause of retry
retry_try(c, outcome) ==
    LET ran == [c EXCEPT !.runs = c.runs + 1, !.outcome = outcome,
                         !.error = IF c.attempt = 1 THEN NoError ELSE c.error]
        err == transformDefaultError(outcome)
        caught == [ran EXCEPT !.error = err, !.lastError = err]
    IN  IF outcome.kind = "resolved" THEN [ran EXCEPT !.at = "returned"]
        ELSE IF isClientError(err)
          THEN [caught EXCEPT !.at = "thrown", !.thrown = err]
        ELSE IF c.attempt < c.maxRetries THEN [caught EXCEPT !.at = "wait"]
        ELSE retry_loop([caught EXCEPT !.attempt = c.attempt + 1])

InitRetry ==
    /\ InitDb
    /\ lockingClause = "rowlocks"
    /\ pc = [p \in Procs |-> "idle"]
    /\ req = [p \in Procs |-> NoReq]
    /\ loc = [p \in Procs |-> NoLoc]
    /\ res = [p \in Procs |-> NoRes]
    /\ reqLeft = 0
    /\ clientEntries = {}
    /\ cache = EmptyCache
    /\ redisHost = FALSE
    /\ redisFaulty = FALSE
    /\ \E m \in RetryInputs, e \in {NoError, transformDefaultError(
                                      [kind |-> "noResponse", status |-> 0])} :
         calc = [call |-> "retry", maxRetries |-> m, attempt |-> 1,
                 at |-> "called", runs |-> 0, error |-> e,
                 outcome |-> [kind |-> "none", status |-> 0],
                 lastError |-> NoError, thrown |-> NoError]

RetryStep(c) ==
    /\ calc' = c
    /\ UNCHANGED <<dbVars, cache, redisHost, redisFaulty, clientEntries,
                   pc, req, loc, res, reqLeft>>

retry_enter ==
    /\ calc.at = "called"
    /\ RetryStep(retry_loop(calc))

retry_attempt ==
    /\ calc.at = "try"
    /\ \E outcome \in Outcomes : RetryStep(retry_try(calc, outcome))

\* the timer of delay * attempt milliseconds fires
retry_wait ==
    /\ calc.at = "wait"
    /\ RetryStep(retry_loop([calc EXCEPT !.attempt = calc.attempt + 1]))

NextRetry ==
    \/ retry_enter
    \/ retry_attempt
    \/ retry_wait

\* the operation's promise settles and the timer fires
SpecRetry == InitRetry /\ [][NextRetry]_vars /\ WF_vars(NextRetry)

\* ----------------------------------------- MeasurementSheetForm (client)
\* the form of a sheet that has not been saved (measurementSheet has no id):
\* adding and deleting act on the component's slabEntries state only
MaxFormEntries == 3
MaxFormActions == 6

InitForm ==
    /\ InitDb
    /\ lockingClause = "rowlocks"
    /\ pc = [p \in Procs |-> "idle"]
    /\ req = [p \in Procs |-> NoReq]
    /\ loc = [p \in Procs |-> NoLoc]
    /\ res = [p \in Procs |-> NoRes]
    /\ reqLeft = MaxFormActions
    /\ clientEntries = {}
    /\ cache = EmptyCache
    /\ redisHost = FALSE
    /\ redisFaulty = FALSE
    /\ calc = [call |-> "MeasurementSheetForm", slabEntries |-> <<>>,
               temp |-> 0]

getNextSerialNumber(slabEntries) == Len(slabEntries) + 1

FormStep(entries, temp) ==
    /\ reqLeft > 0
    /\ reqLeft' = reqLeft - 1
    /\ calc' = [calc EXCEPT !.slabEntries = entries, !.temp = temp]
    /\ UNCHANGED <<dbVars, cache, redisHost, redisFaulty, clientEntries,
                   pc, req, loc, res>>

\* SlabEntryForm.handleSubmit with valid input: the entry carries the
\* nextSerialNumber prop, and handleAddSlabEntry appends it with a temp id
handleAddSlabEntry ==
    /\ Len(calc.slabEntries) < MaxFormEntries
    /\ \E e \in EntryInputs :
         LET slabEntry == [serialNumber |->
                             getNextSerialNumber(calc.slabEntries),
                           squareFeet |-> e.squareFeet,
                           id |-> calc.temp + 1]
         IN  FormStep(Append(calc.slabEntries, slabEntry), calc.temp + 1)

\* prev.filter((_, i) => i !== deleteIndex)
confirmDeleteEntry ==
    \E deleteIndex \in 1..Len(calc.slabEntries) :
      FormStep([i \in 1..(Len(calc.slabEntries) - 1) |->
                  IF i < deleteIndex THEN calc.slabEntries[i]
                  ELSE calc.slabEntries[i + 1]],
               calc.temp)

NextForm ==
    \/ handleAddSlabEntry
    \/ confirmDeleteEntry

SpecForm == InitForm /\ [][NextForm]_vars

\* MeasurementSheet.create and update, which write measurement_sheet:<id>,
\* next to findById, which reads it, with Redis configured
InitHit ==
    /\ measurement_sheets = {FirstSheet}
    /\ measurement_sheet_seq = nextval(SeqStart)
    /\ slab_entries = {}
    /\ uuid = 0
    /\ sheetUuid = 1
    /\ rowLock = [s \in SheetIds |-> 0]
    /\ entryLock = [s \in SheetIds |-> 0]
    /\ lockingClause = "rowlocks"
    /\ drawn = <<SeqStart>>
    /\ InitSlots
    /\ cache = EmptyCache
    /\ redisHost = TRUE
    /\ redisFaulty \in BOOLEAN

NextHit ==
    \E p \in Procs :
      \/ MeasurementSheet_create(p)
      \/ MeasurementSheet_update(p)
      \/ MeasurementSheet_findById(p)

SpecHit == InitHit /\ [][NextHit]_vars

\* readers of a sheet with its entries next to writers of entries, with
\* Redis configured and answering
\* the stale reader, the writer and the reader that follows them
MaxStaleReq == 3

InitStale ==
    /\ slab_entries = Preloaded(1)
    /\ measurement_sheets = {SheetWithEntry}
    /\ uuid = 1
    /\ measurement_sheet_seq = nextval(SeqStart)
    /\ sheetUuid = 1
    /\ rowLock = [s \in SheetIds |-> 0]
    /\ entryLock = [s \in SheetIds |-> 0]
    /\ lockingClause = "rowlocks"
    /\ drawn = <<SeqStart>>
    /\ Idle
    /\ reqLeft = MaxStaleReq
    /\ clientEntries = EntryInputs
    /\ redisHost = TRUE
    /\ redisFaulty = FALSE
    /\ cache \in {EmptyCache, WarmCache}

NextStale ==
    \E p \in Procs :
      \/ MeasurementSheet_findById(p)
      \/ SlabEntry_create(p)
      \/ SlabEntry_update(p)
      \/ SlabEntry_delete(p)

SpecStale == InitStale /\ [][NextStale]_vars

\* ========================================================== properties
InsertOps == {"createSlabEntry", "SlabEntry.create"}
BatchOps == {"batchCreateSlabEntries", "SlabEntry.batchCreate"}

\* C1: concurrent inserts into the one existing, initially empty sheet are
\* never allocated the same serial number, every INSERT of a valid row
\* succeeds, and when all N calls have returned with success the sheet's
\* serial numbers are exactly 1..N.
InsertPcs == {"cse_insert", "sec_insert"}

C1_ConcurrentInsertsDense ==
    /\ [][ \A p \in Procs :
             ( /\ pc[p] \in InsertPcs
               /\ pc'[p] # pc[p]
               /\ req[p].sheet = 1
               /\ SlabRowChecks(req[p].entry) )
             => pc'[p] \in {"cse_cache", "sec_commit"} ]_vars
    /\ [] ( \A p, q \in Procs :
              ( /\ p # q
                /\ pc[p] \in InsertPcs /\ pc[q] \in InsertPcs
                /\ req[p].sheet = 1 /\ req[q].sheet = 1 )
              => loc[p].serialNumber # loc[q].serialNumber )
    /\ [] ( ( /\ reqLeft = MaxReq - NProcs
              /\ \A p \in Procs :
                   /\ pc[p] = "idle"
                   /\ res[p].op \in InsertOps
                   /\ res[p].sheet = 1
                   /\ res[p].code = 201 )
            => Serials(slab_entries, 1) = 1..NProcs )

C3_SerialsDense ==
    \A r \in measurement_sheets :
      Serials(slab_entries, r.id) =
        1..Cardinality(EntriesOf(slab_entries, r.id))

\* C8: an insert or batch insert that finds its sheet missing ends with the
\* not-found outcome and writes nothing, and no stored slab entry ever
\* belongs to a sheet that does not exist.
CheckPcs == {"cse_check", "bce_check", "sec_check", "sbc_check"}

BatchTxnPcs == {"bce_serial", "bce_insert", "bce_commit",
                "sbc_serial", "sbc_insert", "sbc_commit"}

TrueMax(rows, s) ==
    IF Serials(rows, s) = {} THEN 0
    ELSE CHOOSE m \in Serials(rows, s) : \A n \in Serials(rows, s) : n <= m

C9_BatchConsecutive ==
    [][ \A p \in Procs :
          LET s == req[p].sheet
              rows == loc[p].createdEntries
          IN /\ \* the first serial read is the sheet's maximum
                ( /\ pc[p] \in {"bce_serial", "sbc_serial"}
                  /\ pc'[p] \in {"bce_insert", "sbc_insert"}
                  /\ rows = <<>> )
                => loc'[p].serialNumber - (IF pc[p] = "bce_serial" THEN 1 ELSE 0)
                     = TrueMax(slab_entries, s)
             /\ \* the rows of the transaction continue from it
                ( /\ pc[p] \in {"bce_insert", "sbc_insert"}
                  /\ pc'[p] # pc[p]
                  /\ pc'[p] \in BatchTxnPcs
                  /\ rows = <<>> )
                => loc'[p].createdEntries[1].serial_number
                     = loc[p].serialNumber + (IF pc[p] = "bce_insert" THEN 0 ELSE 1)
             /\ \* COMMIT stores all N rows, consecutive, in input order
                ( /\ pc[p] \in {"bce_commit", "sbc_commit"}
                  /\ pc'[p] \in {"bce_cache", "sbc_cache"} )
                => ( /\ Len(rows) = Len(req[p].slabEntries)
                     /\ \A i \in 1..Len(rows) :
                          /\ rows[i].serial_number = rows[1].serial_number + i - 1
                          /\ rows[i].square_feet = req[p].slabEntries[i].squareFeet
                          /\ rows[i].measurement_sheet_id = s
                     /\ Range(rows) \cap slab_entries = {}
                     /\ slab_entries' = slab_entries \cup Range(rows) )
             /\ \* any other step of the batch stores none of its rows
                ( /\ pc[p] \in BatchTxnPcs
                  /\ pc'[p] # pc[p]
                  /\ pc'[p] \notin {"bce_cache", "sbc_cache"} )
                => slab_entries' = slab_entries
             /\ pc[p] \in BatchTxnPcs
                => \A r \in Range(rows), x \in slab_entries : x.id # r.id
      ]_vars


\* C4: every INSERT of a sheet draws one value of the one sequence; the
\* values drawn strictly increase (none is handed out twice, also after a
\* rollback), the k-th sheet row carries the k-th value drawn, and no two
\* sheets carry the same number.
SheetRowsInFlight ==
    { loc[p].sheet : p \in { q \in Procs : pc[q] \in {"cms_cache", "msc_commit",
                                                      "msc_cache"} } }

C4_SheetNumbers ==
    /\ Len(drawn) = sheetUuid
    /\ \A i, j \in 1..Len(drawn) : i < j => drawn[i] < drawn[j]
    /\ \A r \in measurement_sheets \cup SheetRowsInFlight :
         r.measurement_sheet_number = measurement_sheet_number(drawn[r.id])
    /\ \A r1, r2 \in measurement_sheets \cup SheetRowsInFlight :
         r1.id # r2.id
           => r1.measurement_sheet_number # r2.measurement_sheet_number

C4_Witness ==
    /\ \E p \in Procs :
         res[p].op = "MeasurementSheet.create" /\ res[p].code = 500
    /\ Len(drawn) = 2
    /\ \E r \in measurement_sheets :
         /\ r.id = 2
         /\ r.measurement_sheet_number = measurement_sheet_number(SeqStart + 1)
    /\ ~SheetExists(measurement_sheets, 1)

\* C10: a sheet whose status is completed is never set back to draft.
C10_StatusNeverReverts ==
    [][ \A r \in measurement_sheets :
          r.status = "completed"
            => \A r2 \in measurement_sheets' :
                 r2.id = r.id => r2.status # "draft" ]_vars


\* C5: the total a reader returns with a sheet's slab entries equals the
\* sum of the square_feet of the entries it returns.
C5_ReaderConsistent ==
    /\ \A p \in Procs :
         ( /\ res[p].code = 200
           /\ res[p].op \in {"getMeasurementSheetById",
                             "exportMeasurementSheetToCSV"} )
         => res[p].data.sheet.total_square_feet
              = SumArea(res[p].data.slab_entries)
    /\ \A p \in Procs :
         ( pc[p] = "fbi_cacheset" /\ req[p].includeSlabEntries )
         => loc[p].sheet.total_square_feet
              = SumArea(loc[p].createdEntries[1])


\* C6: when a mutating operation completes with success while Redis is
\* healthy and no other call is in progress, no cache entry of the sheet it changed (direct key, full
\* key, slab-entry listing) and no listing or statistics entry holds a value
\* that differs from the database.
MutatorCachePcs ==
    {"cms_cache", "msc_cache", "ums_cache", "msu_cache", "dms_cache",
     "cse_cache", "use_cache", "dse_cache", "bce_cache",
     "sec_cache", "sbc_cache", "seu_cache", "sed_cache"}

MutatedSheet(p) ==
    IF pc[p] \in {"cms_cache", "msc_cache"} THEN loc[p].sheet.id
    ELSE req[p].sheet

FreshEntry(c, k, sheets, rows) ==
    \/ c[k] = null
    \/ /\ k.fam = "measurement_sheet"
       /\ SheetExists(sheets, k.id)
       /\ c[k].sheet = SheetRow(sheets, k.id)
    \/ /\ k.fam = "measurement_sheet_full"
       /\ SheetExists(sheets, k.id)
       /\ c[k].sheet = SheetRow(sheets, k.id)
       /\ c[k].slab_entries = EntriesOf(rows, k.id)

C6_NoStaleCache ==
    [][ \A p \in Procs :
          ( /\ pc[p] \in MutatorCachePcs
            /\ pc'[p] = "idle"
            /\ res'[p].code \in {200, 201}
            /\ ~redisFaulty
            /\ \A q \in Procs \ {p} : pc[q] = "idle" )
          => \A k \in CacheKeys :
               (k.id = MutatedSheet(p) \/ k.id = 0)
                 => FreshEntry(cache', k, measurement_sheets', slab_entries')
      ]_vars

\* C7: with REDIS_HOST unset or the Redis call raising, get yields null and
\* set, del and clearPattern yield false, none lets an error escape or
\* changes the cache; a handler's cache step never changes the database and
\* never turns the call into a failure.
CacheStepPcs == MutatorCachePcs \cup {"gms_cacheget", "gms_cacheset",
                                      "fbi_cacheget", "fbi_cacheset"}

C7_CacheNeverFails ==
    /\ [] ( \A k \in CacheKeys, host, fails \in BOOLEAN :
              (~host \/ fails)
              => /\ cache_get(cache, host, fails, k)
                      = [cache |-> cache, ret |-> null, raised |-> FALSE]
                 /\ cache_set(cache, host, fails, k, [shape |-> "row"])
                      = [cache |-> cache, ret |-> FALSE, raised |-> FALSE]
                 /\ cache_del(cache, host, fails, k)
                      = [cache |-> cache, ret |-> FALSE, raised |-> FALSE]
                 /\ cache_clearPattern(cache, host, fails, k)
                      = [cache |-> cache, ret |-> FALSE, raised |-> FALSE] )
    /\ [][ \A p \in Procs :
             ( pc[p] \in CacheStepPcs /\ pc'[p] # pc[p] )
             => /\ dbVars' = dbVars
                /\ pc'[p] = "idle" => res'[p].code \in {200, 201} ]_vars

C7_Witness ==
    /\ redisHost /\ redisFaulty
    /\ cache = WarmCache
    /\ Cardinality(slab_entries) = 2
    /\ \E p, q \in Procs :
         /\ res[p].op = "createSlabEntry" /\ res[p].code = 201
         /\ res[q].op = "getMeasurementSheetById" /\ res[q].code = 200
         /\ res[q].data = WarmCache[Key("measurement_sheet_full", 1)]

\* C11: every stored slab entry has a non-negative area (square_feet is a
\* DECIMAL(10,2), counted here in hundredths, so it is always finite).
C11_AreaNonNegative ==
    \A r \in slab_entries : r.square_feet >= 0

\* C12: every stored slab entry has a raw length and a raw breadth that are
\* positive and at most 10,000.
C12_DimensionsBounded ==
    \A r \in slab_entries :
      /\ r.length > 0 /\ r.length <= MaxDimension
      /\ r.breadth > 0 /\ r.breadth <= MaxDimension

\* C13: a step taken while a sheet holds at least one slab entry leaves
\* that sheet's customer type as it was.
C13_CustomerTypeFixed ==
    [][ \A r \in measurement_sheets :
          EntriesOf(slab_entries, r.id) # {}
            => \A n \in measurement_sheets' :
                 n.id = r.id => n.customer_type = r.customer_type ]_vars

\* a Builders sheet with an entry after a sheet update and a slab entry
\* update have both succeeded
C13_Witness ==
    /\ \E r \in measurement_sheets :
         /\ r.customer_type = "Builders"
         /\ r.status = "completed"
         /\ EntriesOf(slab_entries, r.id) # {}
    /\ \E p, q \in Procs :
         /\ res[p].op \in {"updateMeasurementSheet", "MeasurementSheet.update"}
         /\ res[p].code = 200
         /\ res[q].op = "updateSlabEntry"
         /\ res[q].code = 200

\* ---- the calculation engine.  Dimensions are counted in hundredths of an
\* inch and areas in hundredths of a square foot; the values the claims name
\* are computed here in exact integer arithmetic.
ValidDimension(raw) ==
    raw.digits /\ raw.tail = "" /\ raw.lead > 0 /\ raw.lead <= MaxDimension * 100

Calculated(t) ==
    /\ calc.call = "calculateSquareFeet"
    /\ calc.customerType = t
    /\ ValidDimension(calc.length)
    /\ ValidDimension(calc.breadth)

\* round(l * b / 144, 2), half up
RoundedArea(l, b) ==
    LET t == DivRem(Mul(Big(l), Big(b)), 14400)
    IN Small(Trim(t.q)) + (IF 2 * t.r >= 14400 THEN 1 ELSE 0)

\* the greatest multiple of 3 that does not exceed v - subtrahend, 0 below it
MultipleOf3(v, subtrahend) ==
    IF v < subtrahend THEN 0 ELSE 300 * ((v - subtrahend) \div 300)

Deducted(v, subtrahend) == IF v < subtrahend THEN 0 ELSE v - subtrahend

\* the same rounding of x * y / 144 for the numbers x and y themselves
ExactArea(x, y) ==
    LET n == Times(Mul(x.m, y.m), 50)
        e == x.e + y.e
        t == IF e >= 0 THEN Add(Shl(n, e), Big(36))
             ELSE Shr(Add(n, Shl(Big(36), -e)), -e)
    IN Small(Trim(DivRem(t, 72).q))

\* the returned area is the half-up rounding of l * b / 144, or of the
\* product of the returned dimensions divided by 144
AreaRounded(r, l, b) ==
    r.squareFeet \in {Number(RoundedArea(l, b)),
                      Number(ExactArea(r.finalLength, r.finalBreadth))}

Gives(finalLength, finalBreadth) ==
    /\ calc.result.type = "result"
    /\ calc.result.finalLength = Number(finalLength)
    /\ calc.result.finalBreadth = Number(finalBreadth)
    /\ AreaRounded(calc.result, finalLength, finalBreadth)

\* C14: for Granite Shops and valid L and B, finalLength is the greatest
\* multiple of 3 not above L-3 (0 when L < 3), finalBreadth the greatest
\* multiple of 3 not above B-2 (0 when B < 2), and the area is
\* finalLength * finalBreadth / 144 rounded half up to two decimals.
C14_GraniteShops ==
    Calculated("granite_shops")
      => Gives(MultipleOf3(calc.length.lead, 300),
               MultipleOf3(calc.breadth.lead, 200))

\* C15: the adjuster returns 0 or a positive multiple of 3, and 0 whenever
\* the raw value is below the subtrahend (3 for a length, 2 for a breadth).
Adjusted ==
    \/ /\ calc.call = "processLength"
       /\ calc.customerType \in {"granite_shops", "builders", "outstation_parties"}
    \/ /\ calc.call = "processBreadth"
       /\ calc.customerType \in {"granite_shops", "outstation_parties"}

C16_Retail ==
    Calculated("retail") => Gives(calc.length.lead, calc.breadth.lead)

\* C17: for Builders and valid L and B, finalBreadth = B, finalLength is 0 or
\* the multiple of 3 the length adjustment gives, and the area is
\* finalLength * B / 144 rounded half up to two decimals.
C17_Builders ==
    Calculated("builders")
      => LET r == calc.result
         IN /\ r.type = "result"
            /\ r.finalBreadth = Number(calc.breadth.lead)
            /\ r.finalLength = processLengthForDivisibility(Number(calc.length.lead))
            /\ r.finalLength = Zero
                 \/ (Positive(r.finalLength) /\ Mod3IsZero(r.finalLength))
            /\ AreaRounded(r, 100 * MathRound(r.finalLength), calc.breadth.lead)

\* C18: for Exporters and valid L and B, finalLength = max(L-3, 0),
\* finalBreadth = max(B-2, 0), as decimals or as the numbers the subtraction
\* gives, and the area is finalLength * finalBreadth / 144 rounded half up
\* to two decimals.
C18_Exporters ==
    Calculated("exporters")
      => LET r == calc.result
             l == Deducted(calc.length.lead, 300)
             b == Deducted(calc.breadth.lead, 200)
         IN /\ r.type = "result"
            /\ r.finalLength \in
                 {Number(l),
                  MathMax0(Difference(Number(calc.length.lead), Number(300)))}
            /\ r.finalBreadth \in
                 {Number(b),
                  MathMax0(Difference(Number(calc.breadth.lead), Number(200)))}
            /\ AreaRounded(r, l, b)

\* C19: for valid L and B, Outstation Parties returns the finalLength,
\* finalBreadth and area that Granite Shops returns.
C19_OutstationAsGraniteShops ==
    Calculated("outstation_parties")
      => calc.result = calculateSquareFeet(calc.length, calc.breadth,
                                           "granite_shops")

\* Outstation Parties has returned (144, 141, 141.00) for (149, 145)
C19_Witness ==
    /\ Calculated("outstation_parties")
    /\ calc.length = Num(14900) /\ calc.breadth = Num(14500)
    /\ calc.result.finalLength = Number(14400)
    /\ calc.result.finalBreadth = Number(14100)
    /\ calc.result.squareFeet = Number(14100)

\* C20: calculateSquareFeet fails with a validation error exactly when a
\* dimension is missing, not numeric, <= 0 or > 10,000 or the customer type
\* is missing or unknown; the error carries one message per violated
\* argument, in the order length, breadth, customer type.
BadDimension(raw) == ~ValidDimension(raw)
BadCustomerType(t) == t = Null \/ t \notin CUSTOMER_TYPES
Violations ==
    (IF BadDimension(calc.length) THEN <<"Length">> ELSE <<>>)
      \o (IF BadDimension(calc.breadth) THEN <<"Breadth">> ELSE <<>>)
      \o (IF BadCustomerType(calc.customerType) THEN <<"Customer type">>
          ELSE <<>>)

C20_ValidationCollected ==
    calc.call = "calculateSquareFeet"
      => IF Violations = <<>> THEN calc.result.type = "result"
         ELSE /\ calc.result.type = "validation"
              /\ Len(calc.result.details) = Len(Violations)
              /\ \A i \in 1..Len(Violations) :
                   calc.result.details[i][1] = Violations[i]

\* ---- two sheets
\* the sheet whose rows the request in slot p writes
WrittenSheet(p) ==
    IF pc[p] = "idle" THEN 0
    ELSE IF req[p].op \in InsertOps THEN req[p].sheet
    ELSE IF HasRow(slab_entries, req[p].id)
      THEN RowById(slab_entries, req[p].id).measurement_sheet_id
    ELSE 0

\* the sheet the other slot's request, running or finished, has written
OtherSheet(p) ==
    LET q == CHOOSE x \in Procs : x # p
    IN IF pc[q] = "idle" THEN res[q].sheet ELSE WrittenSheet(q)

SerialPcs == {"cse_serial", "cse_insert", "sec_serial", "sec_insert"}

\* C21: a line-item insert, update or delete changes the entries, serial
\* numbers and total of the sheet it writes only; an insert into a sheet
\* waits for a lock only while another request writes that same sheet, and
\* fails at its serial allocation or INSERT only because of a request on
\* that same sheet (or because the server refuses the locking clause,
\* whatever the other request does).
C21_OtherSheetsUntouched ==
    /\ [][ \A b \in SheetIds :
             ( \/ EntriesOf(slab_entries', b) # EntriesOf(slab_entries, b)
               \/ SheetRow(measurement_sheets', b)
                    # SheetRow(measurement_sheets, b) )
               => \E p \in Procs : pc'[p] # pc[p] /\ WrittenSheet(p) = b ]_vars
    /\ [][ \A p \in Procs :
             pc[p] \in SerialPcs /\ pc'[p] = "idle" /\ res'[p].code = 500
               => \/ lockingClause = "rejected"
                  \/ ~InsertAccepted(measurement_sheets, {}, req[p].sheet,
                                      1, req[p].entry)
                  \/ OtherSheet(p) = req[p].sheet ]_vars
    /\ [](\A p \in Procs :
            pc[p] \in SerialPcs
              /\ ~(LockFree(p, req[p].sheet) /\ EntriesFree(p, req[p].sheet))
              => OtherSheet(p) = req[p].sheet)

\* two inserts are in their transactions at once, one per sheet
C21_Witness ==
    /\ pc[1] = "sec_commit" /\ req[1].sheet = 1
    /\ pc[2] = "sec_commit" /\ req[2].sheet = 2

\* ---- the iteration ceiling
\* processed and iterations when the loop of the adjuster is left
LoopRun(raw, subtrahend) ==
    DecrementLoop(Difference(Number(raw), Number(subtrahend)), 0)

LengthAdjusting == {"granite_shops", "builders", "outstation_parties"}
BreadthAdjusting == {"granite_shops", "outstation_parties"}

\* the loop has been left within the ceiling, and at the ceiling value is 0
Bounded(raw, subtrahend, value) ==
    raw >= subtrahend
      => LET loop == LoopRun(raw, subtrahend)
         IN /\ ~LoopContinues(loop)
            /\ loop.iterations <= maxIterations
            /\ loop.iterations >= maxIterations => value = Zero

\* C22: the loop of the adjuster is left after at most 100 iterations; at
\* the ceiling the adjuster returns 0, and the calculation around it returns
\* a result with that dimension 0 and area 0, not an error.
C22_CeilingGivesZero ==
    /\ calc.call = "processLength" /\ calc.customerType \in LengthAdjusting
         => Bounded(calc.length.lead, 300, calc.result)
    /\ calc.call = "processBreadth" /\ calc.customerType \in BreadthAdjusting
         => Bounded(calc.breadth.lead, 200, calc.result)
    /\ \A t \in LengthAdjusting :
         Calculated(t)
           => /\ calc.result.type = "result"
              /\ Bounded(calc.length.lead, 300, calc.result.finalLength)
              /\ calc.result.finalLength = Zero => calc.result.squareFeet = Zero
    /\ \A t \in BreadthAdjusting :
         Calculated(t)
           => /\ Bounded(calc.breadth.lead, 200, calc.result.finalBreadth)
              /\ calc.result.finalBreadth = Zero => calc.result.squareFeet = Zero

\* Builders has returned length 0 and area 0 for (150.5, 146), whose loop
\* ran 100 times
C22_Witness ==
    /\ Calculated("builders")
    /\ calc.length = Num(15050) /\ calc.breadth = Num(14600)
    /\ LoopRun(15050, 300).iterations = maxIterations
    /\ calc.result.type = "result"
    /\ calc.result.finalLength = Zero
    /\ calc.result.squareFeet = Zero

\* C30: for a length or breadth that passed validation the loop is left
\* before the ceiling.
C30_CeilingNotReached ==
    /\ \A t \in LengthAdjusting :
         Calculated(t) /\ calc.length.lead >= 300
           => LoopRun(calc.length.lead, 300).iterations < maxIterations
    /\ \A t \in BreadthAdjusting :
         Calculated(t) /\ calc.breadth.lead >= 200
           => LoopRun(calc.breadth.lead, 200).iterations < maxIterations

\* ---- invalidation
Invalidations == {"cache.del", "cache.clearPattern"}

\* the cached entries an invalidation of calc.key finds in content c
Found(c) ==
    { k \in DOMAIN c :
        /\ c[k] # null
        /\ IF calc.call = "cache.del" THEN k = calc.key
           ELSE KeyMatches(calc.key, k) }

\* the same invalidation, made once more on content c
Again(c, fails) ==
    IF calc.call = "cache.del" THEN cache_del(c, redisHost, fails, calc.key)
    ELSE cache_clearPattern(c, redisHost, fails, calc.key)

\* C23: cache.del and cache.clearPattern never report an error; one that
\* finds no cached entry leaves the cache as it was; and one that has been
\* carried out leaves a cache on which the same invalidation changes
\* nothing and reports no error.
C23_InvalidationIdempotent ==
    calc.call \in Invalidations
      => /\ ~calc.raised
         /\ Found(calc.before) = {} => cache = calc.before
         /\ calc.ret
              => /\ Found(cache) = {}
                 /\ \A f \in RedisOutcomes :
                      /\ Again(cache, f).cache = cache
                      /\ ~Again(cache, f).raised

\* clearPattern has been carried out on a cache that held no matching entry
C23_Witness ==
    /\ calc.call = "cache.clearPattern"
    /\ redisHost /\ calc.ret
    /\ Found(calc.before) = {}
    /\ cache = calc.before

\* ---- serial numbers over time
\* ids are handed out in the order of creation: 1..MaxPreload + MaxReq
RowIds == 1..(MaxPreload + MaxReq)

\* the row created as the i-th holds serial number n in sheet s
HoldsSerial(s, i, n) ==
    \E r \in EntriesOf(slab_entries, s) : r.id = i /\ r.serial_number = n

\* C24: once a row of a sheet has held serial number n, every row created
\* later in that sheet holds a serial number greater than n, whether or not
\* the earlier row has been deleted since.
C24_SerialsNeverReused ==
    \A i \in RowIds, n \in RowIds :
      [](HoldsSerial(1, i, n)
           => [](\A r \in EntriesOf(slab_entries, 1) :
                   r.id > i => r.serial_number > n))

\* ---- the format of sheet numbers
\* n in decimal, left-padded with zeros to PadWidth digits
ZeroPadded(n) ==
    IF Len(ToText(n)) >= PadWidth THEN ToText(n)
    ELSE LPAD(ToText(n), PadWidth, 0)

\* C25: a sheet that drew counter value n carries 'MS-' followed by n in
\* decimal, zero-padded to four digits; sheets with distinct counter values
\* carry distinct numbers; and no INSERT of a sheet fails on the UNIQUE
\* constraint of the number.
C25_SheetNumberFormat ==
    /\ [](\A r \in measurement_sheets \cup SheetRowsInFlight :
            r.measurement_sheet_number = ZeroPadded(drawn[r.id]))
    /\ [](\A r1, r2 \in measurement_sheets \cup SheetRowsInFlight :
            drawn[r1.id] # drawn[r2.id]
              => r1.measurement_sheet_number # r2.measurement_sheet_number)
    /\ [][ \A p \in Procs :
             pc[p] \in {"cms_insert", "msc_insert"} /\ pc'[p] = "idle"
               => res'[p].code # 500 ]_vars


\* C26: retry runs the operation at most maxRetries times and comes to an
\* end: it returns when an attempt succeeds (no attempt follows), stops after
\* an attempt that failed with a 4xx response, and throws the error of the
\* last attempt once maxRetries attempts have failed
RetryDone == calc.at \in {"returned", "thrown"}

C26_RetryBounded ==
    /\ [](calc.runs <= calc.maxRetries)
    /\ [](calc.at = "returned" => calc.outcome.kind = "resolved")
    /\ [](calc.runs > 0 /\ ~RetryDone
            => /\ calc.outcome.kind # "resolved"
               /\ ~(calc.outcome.kind = "response"
                    /\ calc.outcome.status \in 400..499))
    /\ [](calc.at = "thrown" /\ calc.runs > 0
            => /\ calc.outcome.kind # "resolved"
               /\ calc.thrown = transformDefaultError(calc.outcome)
               /\ \/ calc.runs = calc.maxRetries
                  \/ calc.outcome.status \in 400..499)
    /\ [][RetryDone => calc' = calc]_vars
    /\ <>RetryDone

C26_Witness ==
    /\ calc.at = "thrown"
    /\ calc.maxRetries = defaultMaxRetries
    /\ calc.runs = defaultMaxRetries
    /\ calc.outcome.status = 503

\* C29: in the form's local list no two entries carry the same serial
\* number, and the serial number offered for the next entry is not held by
\* an entry of the list
C29_LocalSerialsDistinct ==
    /\ \A i, j \in 1..Len(calc.slabEntries) :
         i # j => calc.slabEntries[i].serialNumber
                    # calc.slabEntries[j].serialNumber
    /\ \A i \in 1..Len(calc.slabEntries) :
         calc.slabEntries[i].serialNumber
           # getNextSerialNumber(calc.slabEntries)

\* C28: what the constructor builds from the entry cached under
\* measurement_sheet:<id> has the sheet number, customer type, total and
\* status of the sheet the entry was written for, as a database read of that
\* sheet has; a findById answered with a sheet carries the number and the
\* customer type of the stored sheet
C28_CacheHitKeepsFields ==
    /\ \A s \in SheetIds :
         LET c == cache[Key("measurement_sheet", s)]
         IN  c # null
               => MeasurementSheet(c).sheet
                    = MeasurementSheet([shape |-> "row",
                                        sheet |-> c.sheet]).sheet
    /\ \A p \in Procs :
         ( /\ res[p].op = "MeasurementSheet.findById"
           /\ res[p].code = 200 )
         => LET row == SheetRow(measurement_sheets, res[p].sheet)
            IN  /\ res[p].data.sheet.measurement_sheet_number
                     = row.measurement_sheet_number
                /\ res[p].data.sheet.customer_type = row.customer_type

\* C27: a findById(id, true) that looks into the cache while no mutation of
\* line items is under way (each one has either not begun or has committed
\* and finished its invalidation) and is answered with a sheet returns the
\* line items and the total the database holds
FindPcs == {"fbi_cacheget", "fbi_sheet", "fbi_slabs", "fbi_cacheset"}

C27_ReadAfterInvalidation ==
    [][ \A p \in Procs :
          ( /\ pc[p] = "fbi_cacheget"
            /\ req[p].includeSlabEntries
            /\ pc'[p] = "idle"
            /\ res'[p].code = 200
            /\ \A q \in Procs \ {p} : pc[q] \in FindPcs \cup {"idle"} )
          => /\ res'[p].data.slabEntries
                  = EntriesOf(slab_entries, res'[p].sheet)
             /\ res'[p].data.sheet.total_square_feet
                  = SheetRow(measurement_sheets,
                             res'[p].sheet).total_square_feet
      ]_vars
====
